---- MODULE Spec2Model ----
(***************************************************************************)
(* A model of danger-ai/djMagic: the transient-conflict retry wrapper      *)
(* (BaseModel.wsrep_retry) and the diffing save path of an entity          *)
(* (BaseModel.model_differences, BaseModel.save_model, AutoDateMixin.save, *)
(* ModelUtil.m2m_update, HistoryMixin.log_model_change).                   *)
(* Further: the bulk updates (BaseModel.set_bulk, set_bulk_targeted), the   *)
(* relationship store (GenericModelRelationship, GenericRelationshipMixin) *)
(* and the cross-reference reconciliation (XrefMixin). Further: the audit   *)
(* writes (HistoryMixin), the record status (RecordStatusMixin), proposed   *)
(* reference values (get_update_vals, clean_kwargs), the filter built from  *)
(* conditions (ConditionalMixin), the flag cache (MagicFlagMixin) and       *)
(* clear_generic_relations.                                                 *)
(***************************************************************************)
EXTENDS Integers, Sequences, FiniteSets, TLC

VARIABLES
    \* ---- wsrep_retry: one wrapped operation and its retries
    rpc,        \* "idle" | "pending" (wsrep_retry entered) | "returned" | "raised"
    rex,        \* the exception wsrep_retry was entered with
    rcount,     \* kwargs['wsrep_retry_count'] of the current recursion level
    rautolog,   \* wsrep_autolog of the current recursion level
    attempts,   \* calls of the wrapped operation so far, the original one included
    slept,      \* seconds slept so far
    crit,       \* critical log entries written so far
    outcomes,   \* the outcome of every attempt, in order
    ret,        \* the value handed back to the caller
    raised,     \* the exception raised to the caller
    \* ---- the store and one caller's entity instance
    db,         \* the entity table: id -> row (columns, and the members of its m2m field)
    inst,       \* the in-memory instance of entity 1 held by the caller
    now,        \* the clock
    history,    \* the ChangeHistory table (key, type, user of every row)
    last,       \* the most recent call: its arguments, what it read, did and returned
    \* ---- the relationship store
    links,      \* the GenericModelRelationship table, a set of rows
    live,       \* the entities of the linked kinds that exist
    call,       \* per caller: its set_generic_relation call in progress
    \* ---- the cross-reference store
    xrefs,      \* the ExternalXref table, a set of rows
    xcall       \* per caller: its external_model_create_or_diff call in progress

rvars == <<rpc, rex, rcount, rautolog, attempts, slept, crit, outcomes, ret, raised>>

svars == <<db, inst, now, history, last>>

lvars == <<links, live, call>>

xvars == <<xrefs, xcall>>

vars == <<rpc, rex, rcount, rautolog, attempts, slept, crit, outcomes, ret, raised,
          db, inst, now, history, last, links, live, call, xrefs, xcall>>

(***************************************************************************)
(* wsrep_retry                                                             *)
(***************************************************************************)

\* The retry budget compared with wsrep_retry_count, and the fixed sleep.
RetryLimit == 10
SleepSeconds == 5

NoValue == "None"
NoException == <<>>

\* What the wrapped operation can return.
Results == {"row1", "row2"}

\* repr(ex) of the failures the store raises, as words.
ExWsrepUpper == <<"OperationalError", "1213", "WSREP", "detected", "deadlock">>
ExWsrepLower == <<"OperationalError", "1047", "wsrep", "has", "not", "yet", "prepared", "node">>
ExDuplicate == <<"IntegrityError", "1062", "Duplicate", "entry">>
ExLockWait == <<"OperationalError", "1205", "Lock", "wait", "timeout", "exceeded">>

Exceptions == {ExWsrepUpper, ExWsrepLower, ExDuplicate, ExLockWait}

\* str.lower() on the words that occur in the failures above.
Lower(w) ==
    CASE w = "WSREP" -> "wsrep"
      [] w = "OperationalError" -> "operationalerror"
      [] w = "IntegrityError" -> "integrityerror"
      [] w = "Duplicate" -> "duplicate"
      [] w = "Lock" -> "lock"
      [] OTHER -> w

\* A wrapper that takes every failure for a transient conflict.
IsTransientAlways(ex) == TRUE

\* 'wsrep' in str(repr(ex)).lower()
IsTransient(ex) == \E i \in DOMAIN ex : Lower(ex[i]) = "wsrep"

\* A wrapper that gives up after its second call of f.
CanRetryOnce(count) == count < 1

\* wsrep_retry_count < 10
CanRetry(count) == count < RetryLimit

\* An attempt either returns a value or raises.
Outcomes == [ok : {TRUE}, val : Results] \cup [ok : {FALSE}, ex : Exceptions]

RetryInit ==
    /\ rpc = "idle"
    /\ rex = NoException
    /\ rcount = 0
    /\ rautolog = TRUE
    /\ attempts = 0
    /\ slept = 0
    /\ crit = 0
    /\ outcomes = <<>>
    /\ ret = NoValue
    /\ raised = NoException

\* The caller's own attempt; a failure is handed to wsrep_retry together with
\* the caller's wsrep_autolog.
OriginalAttempt(o, autolog) ==
    /\ rpc = "idle"
    /\ attempts' = attempts + 1
    /\ outcomes' = Append(outcomes, o)
    /\ IF o.ok
       THEN /\ rpc' = "returned"
            /\ ret' = o.val
            /\ UNCHANGED <<rex, rcount, rautolog>>
       ELSE /\ rpc' = "pending"
            /\ rex' = o.ex
            /\ rcount' = 0
            /\ rautolog' = autolog
            /\ UNCHANGED ret
    /\ UNCHANGED <<slept, crit, raised>>

\* One recursion level of wsrep_retry(ex, f, ...): the check of ex, the sleep, the
\* call of f, and the handling of f's failure. The recursive call pops
\* wsrep_retry_count from kwargs and finds no wsrep_autolog there (default True).
wsrep_retry(o) ==
    /\ rpc = "pending"
    /\ IF IsTransient(rex)
       THEN /\ slept' = slept + SleepSeconds
            /\ attempts' = attempts + 1
            /\ outcomes' = Append(outcomes, o)
            /\ IF o.ok
               THEN /\ rpc' = "returned"
                    /\ ret' = o.val
                    /\ UNCHANGED <<rex, rcount, rautolog, crit, raised>>
               ELSE IF CanRetry(rcount)
                    THEN /\ rpc' = "pending"
                         /\ rex' = o.ex
                         /\ rcount' = rcount + 1
                         /\ rautolog' = TRUE
                         /\ UNCHANGED <<crit, ret, raised>>
                    ELSE /\ rpc' = "raised"
                         /\ raised' = o.ex
                         /\ crit' = IF rautolog THEN crit + 1 ELSE crit
                         /\ UNCHANGED <<rex, rcount, rautolog, ret>>
       ELSE /\ rpc' = "raised"
            /\ raised' = rex
            /\ crit' = IF rautolog THEN crit + 1 ELSE crit
            /\ UNCHANGED <<rex, rcount, rautolog, attempts, slept, outcomes, ret>>

RetryNext ==
    \/ \E o \in Outcomes, autolog \in BOOLEAN : OriginalAttempt(o, autolog)
    \/ \E o \in Outcomes : wsrep_retry(o)


(***************************************************************************)
(* The entity kind, its values and its store                               *)
(***************************************************************************)

\* Bounds of the model.
MaxMember == 1
MaxTime == 1
MaxHistory == 1

\* Python values: None, int, str, a model instance of the referenced kind, a csv
\* text of ids, and the related manager that getattr returns for an m2m field.
None == [k |-> "None"]
IntV(n) == [k |-> "int", n |-> n]
StrV(s) == [k |-> "str", s |-> s]
ObjV(i) == [k |-> "Owner", id |-> i]
CsvV(ids) == [k |-> "csv", ids |-> ids]
Manager == [k |-> "ManyRelatedManager"]

EmptyDict == <<>>
Restrict(d, keys) == [k \in keys |-> d[k]]

\* The entity under change and the record that can collide with it.
Subject == 1
Other == 2
Ids == {Subject, Other}
Names == {"a", "b", "c"}
Members == 1 .. MaxMember
NoUser == "None"
Users == {"alice"}

\* What hasattr(self, k) finds on the entity: its columns, the reference field
\* owner with its column owner_id, the m2m field tags, and ext_id, an integer
\* column with no attribute ext beside it.
Attrs == {"id", "name", "owner", "owner_id", "tags", "ext_id", "created", "updated"}
ManyToMany == {"tags"}
UniqueTogether == {"name"}
HasAttr(k) == k \in Attrs

\* f"{k}_id" and str(k).endswith('_id')
IdKey(k) == CASE k = "owner" -> "owner_id" [] k = "ext" -> "ext_id" [] OTHER -> "_id"
EndsWithId(k) == k \in {"owner_id", "ext_id"}

\* getattr(self, k)
GetAttr(self, k) ==
    CASE k = "owner" -> IF self.owner_id = None THEN None ELSE ObjV(self.owner_id.n)
      [] k = "tags" -> Manager
      [] OTHER -> self[k]

\* setattr(self, k, v): assigning the reference sets its column.
SetAttr(self, k, v) ==
    CASE k = "owner" -> [self EXCEPT !.owner_id = IF v = None THEN None ELSE IntV(v.id)]
      [] OTHER -> [self EXCEPT ![k] = v]

SetAttrs(self, kv) ==
    LET s1 == IF "name" \in DOMAIN kv THEN SetAttr(self, "name", kv["name"]) ELSE self
        s2 == IF "owner" \in DOMAIN kv THEN SetAttr(s1, "owner", kv["owner"]) ELSE s1
    IN  IF "owner_id" \in DOMAIN kv THEN SetAttr(s2, "owner_id", kv["owner_id"]) ELSE s2

\* The column a field of update_fields is written to.
Column(f) == IF f = "owner" THEN "owner_id" ELSE f

\* cls.get(id=...): a fresh instance of a stored row.
get(dbv, id) ==
    [id |-> id, name |-> dbv[id].name, owner_id |-> dbv[id].owner_id,
     created |-> dbv[id].created]


(***************************************************************************)
(* model_differences and save_model                                        *)
(***************************************************************************)

Range(q) == {q[i] : i \in DOMAIN q}

\* clean_kwargs: the entity has neither created_user nor last_user, so only the
\* deselected references (k ends with _id and v == -1) are rewritten, to None.
clean_kwargs(user, kwargs) ==
    [k \in DOMAIN kwargs |->
        IF EndsWithId(k) /\ kwargs[k] = IntV(-1) THEN None ELSE kwargs[k]]

\* str(v).isnumeric(): the digits of a non-negative int.
IsNumeric(v) == v.k = "int" /\ v.n >= 0

\* model_differences(self, change_dict)
model_differences(self, change_dict) ==
    LET direct == {k \in DOMAIN change_dict :
                      HasAttr(k) /\ GetAttr(self, k) # change_dict[k]}
        by_id == {k \in DOMAIN change_dict :
                      /\ ~HasAttr(k)
                      /\ HasAttr(IdKey(k))
                      /\ (IsNumeric(change_dict[k]) \/ change_dict[k].k = "Owner")}
    IN  [k \in direct \cup {IdKey(k) : k \in by_id} |->
            IF k \in direct
            THEN change_dict[k]
            ELSE LET src == CHOOSE c \in by_id : IdKey(c) = k
                 IN  IF IsNumeric(change_dict[src])
                     THEN change_dict[src]
                     ELSE IntV(change_dict[src].id)]

\* The id list save_model reads from the value proposed for an m2m field:
\* [] for '-1', else [int(i) for i in str(v).split(",")].
ParseIdList(v) ==
    IF v = IntV(-1) \/ v = CsvV(<<-1>>) THEN <<>> ELSE v.ids

\* The unique index of the table: another stored row holds the same values.
Duplicates(dbv, id, row) ==
    {j \in Ids \ {id} : dbv[j].exists /\ \A u \in UniqueTogether : dbv[j][u] = row[u]}

\* A save that names the same fields but writes every column of the instance.
AutoDateSaveAllFields(dbv, self, t, update_fields) ==
    LET row == [dbv[self.id] EXCEPT !.name = self.name, !.owner_id = self.owner_id,
                                    !.created = self.created, !.updated = t]
    IN  IF Duplicates(dbv, self.id, row) # {}
        THEN [db |-> dbv, fields |-> {}, error |-> ExDuplicate]
        ELSE [db |-> [dbv EXCEPT ![self.id] = row],
              fields |-> update_fields \cup {"updated", "created"}, error |-> NoException]

\* AutoDateMixin.save(update_fields=...): updated and created join the fields,
\* self.updated is set from the clock, and the row is updated in those fields.
\* The result holds the store, the UPDATE's field set, and the failure if the
\* unique index rejects the row.
AutoDateSave(dbv, self, t, update_fields) ==
    LET fields == IF update_fields # {}
                  THEN update_fields \cup {"updated", "created"}
                  ELSE update_fields
        mem == [name |-> self.name, owner_id |-> self.owner_id,
                created |-> self.created, updated |-> t]
        cols == {Column(f) : f \in fields}
        row == [c \in DOMAIN dbv[self.id] |->
                   IF c \in cols THEN mem[c] ELSE dbv[self.id][c]]
    IN  IF Duplicates(dbv, self.id, row) # {}
        THEN [db |-> dbv, fields |-> {}, error |-> ExDuplicate]
        ELSE [db |-> [dbv EXCEPT ![self.id] = row], fields |-> fields,
              error |-> NoException]

\* dup_check: the first other record whose unique fields hold the instance's
\* values, or 0 for None.
dup_check(dbv, self) ==
    LET found == {j \in Ids : /\ j # self.id
                              /\ dbv[j].exists
                              /\ \A u \in UniqueTogether : dbv[j][u] = GetAttr(self, u)}
    IN  IF found = {} THEN 0 ELSE CHOOSE j \in found : \A i \in found : j <= i

\* Model.delete() of a record: the row and its m2m rows go.
delete(dbv, id) == [dbv EXCEPT ![id].exists = FALSE, ![id].tags = {}]

\* ModelUtil.m2m_update(model_obj, m2m, pre_m2m): the changed m2m fields, and
\* the store after field.set(v) / field.clear().
M2mDiffers(compare, v) ==
    LET added == \E i \in DOMAIN v : v[i] \notin compare
    IN  added \/ (~added /\ \E c \in compare : c \notin Range(v))


m2m_update(dbv, id, m2m, pre_m2m) ==
    IF DOMAIN m2m # {}
    THEN [db |-> [dbv EXCEPT ![id].tags =
                     IF "tags" \in DOMAIN m2m THEN Range(m2m["tags"]) ELSE @],
          updated_vals |-> [k \in {f \in DOMAIN m2m : M2mDiffers(dbv[id][f], m2m[f])}
                               |-> IntV(1)]]
    ELSE IF DOMAIN pre_m2m # {}
    THEN [db |-> [dbv EXCEPT ![id].tags = IF "tags" \in DOMAIN pre_m2m THEN {} ELSE @],
          updated_vals |-> [k \in {f \in DOMAIN pre_m2m : dbv[id][f] # {}} |-> IntV(0)]]
    ELSE [db |-> dbv, updated_vals |-> EmptyDict]

\* core.util.merge_dict(a, b)
merge_dict(a, b) == b @@ a

\* log_model_update -> log_model_change: one ChangeHistory row for the entity.
\* The detail text lists the field names it is given.
log_model_change(self, user, fields, change_type, code) ==
    [key |-> self.id, user |-> user, type |-> change_type, code |-> code,
     fields |-> fields]

HistoryRow(rec) == [key |-> rec.key, type |-> rec.type, user |-> rec.user]


\* The failures save_model raises itself.
ExUniqueViolation == <<"IntegrityError", "Unique", "index", "check", "would", "be", "violated">>
ExClearFailed == <<"IntegrityError", "Failed", "to", "clear", "duplicate", "entry">>
ExUnknownFailure == <<"IntegrityError", "Unknown", "failure", "to", "save", "model", "changes">>

\* 'Duplicate entry' in repr(ex)
IsDuplicateEntry(ex) ==
    \E i \in DOMAIN ex : ex[i] = "Duplicate" /\ i + 1 \in DOMAIN ex /\ ex[i + 1] = "entry"

\* save_model(self, user, **kwargs) on the store dbv and the audit table hist at
\* clock t; dup_clear is kwargs['magic_duplicate_clear']. The result holds the
\* store, the audit table and the instance after the call, what was raised or
\* returned, the field set of every UPDATE of the entity's row, the audit
\* records appended and the records deleted. The kwargs hold no key with "__"
\* (save_submodels has nothing to do) and save_org_check is not set.
RECURSIVE save_model(_, _, _, _, _, _, _)
save_model(dbv, hist, self, t, user, dup_clear, kw) ==
    LET kwargs0 == clean_kwargs(user, kw)
        m2mKeys == {f \in ManyToMany : f \in DOMAIN kwargs0}
        m2m == [f \in m2mKeys |-> ParseIdList(kwargs0[f])]
        pre_m2m == [f \in m2mKeys |-> dbv[self.id][f]]
        kwargs == Restrict(kwargs0, DOMAIN kwargs0 \ m2mKeys)
        differing == {k \in DOMAIN kwargs : ~(GetAttr(self, k) = kwargs[k])}
        pre_data == [k \in differing |-> GetAttr(self, k)]
        self1 == SetAttrs(self, Restrict(kwargs, differing))
        Raise(ex) ==
            [db |-> dbv, history |-> hist, inst |-> self1, raised |-> ex,
             changed |-> FALSE, data |-> None, writes |-> <<>>, logged |-> <<>>,
             deleted |-> {}]
        Finish(d, h, writes, logged, deleted) ==
            LET mu == m2m_update(d, self1.id, m2m, pre_m2m)
                rec == log_model_change(self1, user, differing \cup DOMAIN pre_m2m,
                                        "UPDATED", "UPDATED")
            IN  [db |-> mu.db,
                 history |-> IF user # NoUser THEN Append(h, HistoryRow(rec)) ELSE h,
                 inst |-> self1, raised |-> NoException, changed |-> TRUE,
                 data |-> merge_dict(pre_data, mu.updated_vals), writes |-> writes,
                 logged |-> IF user # NoUser THEN Append(logged, rec) ELSE logged,
                 deleted |-> deleted]
    IN  IF differing # {}
        THEN LET w == AutoDateSave(dbv, self1, t, differing)
             IN  IF w.error = NoException
                 THEN Finish(w.db, hist, <<w.fields>>, <<>>, {})
                 ELSE IF ~IsDuplicateEntry(w.error) THEN Raise(ExUnknownFailure)
                 ELSE IF ~dup_clear THEN Raise(ExUniqueViolation)
                 ELSE LET dup == dup_check(dbv, self1)
                      IN  IF dup = 0 THEN Raise(ExClearFailed)
                          ELSE LET inner == save_model(delete(dbv, dup), hist, self1, t,
                                                       user, dup_clear, kw)
                               IN  IF inner.raised # NoException
                                   THEN [inner EXCEPT !.deleted = @ \cup {dup}]
                                   ELSE Finish(inner.db, inner.history, inner.writes,
                                               inner.logged, inner.deleted \cup {dup})
        ELSE IF DOMAIN m2m # {} \/ DOMAIN pre_m2m # {}
        THEN Finish(dbv, hist, <<>>, <<>>, {})
        ELSE [db |-> dbv, history |-> hist, inst |-> self1, raised |-> NoException,
              changed |-> FALSE, data |-> None, writes |-> <<>>, logged |-> <<>>,
              deleted |-> {}]

(***************************************************************************)
(* The calls                                                               *)
(***************************************************************************)

\* The sorted id list of a set of members, as a csv text holds it.
RECURSIVE SortedIds(_)
SortedIds(S) ==
    IF S = {} THEN <<>>
    ELSE LET m == CHOOSE x \in S : \A y \in S : x <= y
         IN  <<m>> \o SortedIds(S \ {m})

\* The values callers propose.
NameOpts == {EmptyDict} \cup {"name" :> StrV(n) : n \in Names \ {"a"}}
RefOpts == {EmptyDict, "owner_id" :> IntV(-1), "owner_id" :> IntV(1)}
HandleOpts == {"owner" :> ObjV(1), "owner" :> IntV(1), "ext" :> IntV(1), "ext" :> ObjV(1)}
TagOpts == {EmptyDict, "tags" :> CsvV(<<-1>>)}
              \cup {"tags" :> CsvV(SortedIds(S)) : S \in (SUBSET Members) \ {{}}}

SaveProposals == {n @@ r @@ g : n \in NameOpts, r \in RefOpts, g \in TagOpts}
DiffProposals ==
    {n @@ r @@ g : n \in NameOpts, r \in RefOpts \cup HandleOpts,
                  g \in {EmptyDict, "tags" :> CsvV(<<1>>)}}
OtherProposals == {"name" :> StrV(n) : n \in Names}

NoCall == [op |-> "none"]

InitDb ==
    [i \in Ids |->
        [exists |-> TRUE, name |-> IF i = Subject THEN StrV("a") ELSE StrV("b"),
         owner_id |-> None, tags |-> {}, created |-> 0, updated |-> 0]]

\* No relationship link is stored and no caller is linking.
LinksUnused ==
    /\ links = {}
    /\ live = {}
    /\ call = <<>>

\* No cross-reference is stored and no caller is reconciling.
XrefsUnused ==
    /\ xrefs = {}
    /\ xcall = <<>>

Init ==
    /\ RetryInit
    /\ db = InitDb
    /\ inst = get(InitDb, Subject)
    /\ now = 0
    /\ history = <<>>
    /\ last = NoCall
    /\ LinksUnused
    /\ XrefsUnused

\* The clock collaborator.
Tick ==
    /\ last = NoCall
    /\ now < MaxTime
    /\ now' = now + 1
    /\ UNCHANGED <<db, inst, history, last>>
    /\ UNCHANGED rvars

\* The caller fetches the entity again.
Load ==
    /\ last = NoCall
    /\ inst' = get(db, Subject)
    /\ UNCHANGED <<db, now, history, last>>
    /\ UNCHANGED rvars

CallRecord(fresh, self, kw, user, dup_clear, r) ==
    [op |-> "save_model", fresh |-> fresh, kwargs |-> kw, user |-> user,
     dup_clear |-> dup_clear, pre |-> [db |-> db, inst |-> self],
     raised |-> r.raised, changed |-> r.changed, data |-> r.data,
     writes |-> r.writes, logged |-> r.logged, deleted |-> r.deleted]

\* inst.save_model(user, **kw) by the caller that holds inst.
SaveModelCall(kw, user, dup_clear) ==
    /\ last = NoCall
    /\ user # NoUser => Len(history) < MaxHistory
    /\ LET r == save_model(db, history, inst, now, user, dup_clear, kw)
       IN  /\ db' = r.db
           /\ history' = r.history
           /\ inst' = r.inst
           /\ last' = CallRecord(FALSE, inst, kw, user, dup_clear, r)
    /\ UNCHANGED now
    /\ UNCHANGED rvars

\* Another caller fetches the entity and saves it.
OtherCallerSave(kw) ==
    /\ last = NoCall
    /\ LET r == save_model(db, history, get(db, Subject), now, NoUser, FALSE, kw)
       IN  /\ db' = r.db
           /\ history' = r.history
           /\ last' = CallRecord(TRUE, get(db, Subject), kw, NoUser, FALSE, r)
    /\ UNCHANGED <<inst, now>>
    /\ UNCHANGED rvars

\* inst.model_differences(kw)
ModelDifferencesCall(kw) ==
    /\ last = NoCall
    /\ last' = [op |-> "model_differences", kwargs |-> kw,
                delta |-> model_differences(inst, kw)]
    /\ UNCHANGED <<db, inst, now, history>>
    /\ UNCHANGED rvars

\* The call is over: the caller has its result and may call again.
Return ==
    /\ last # NoCall
    /\ last' = NoCall
    /\ UNCHANGED <<db, inst, now, history>>
    /\ UNCHANGED rvars

Next ==
    \/ Tick
    \/ Load
    \/ \E kw \in SaveProposals, user \in Users \cup {NoUser}, dup_clear \in BOOLEAN :
          SaveModelCall(kw, user, dup_clear)
    \/ \E kw \in OtherProposals : OtherCallerSave(kw)
    \/ \E kw \in DiffProposals : ModelDifferencesCall(kw)
    \/ Return

Spec == Init /\ [][Next /\ UNCHANGED <<lvars, xvars>>]_vars

\* The retry wrapper on its own: the store stays as it is.
SpecRetry == Init /\ [][RetryNext /\ UNCHANGED <<svars, lvars, xvars>>]_vars


(***************************************************************************)
(* set_bulk and set_bulk_targeted                                          *)
(***************************************************************************)

\* django.db.transaction.atomic as the code names it in `with
\* transaction.atomic:`: the function itself, and the context manager that
\* calling it would give.
AtomicFunction == [k |-> "function"]
AtomicContext == [k |-> "Atomic"]
transaction_atomic == AtomicFunction

\* The `with` statement enters only an object that has __enter__ and __exit__.
IsContextManager(v) == v = AtomicContext

\* What `with` raises on any other object, and what a failed assert raises.
ExNotContextManager == <<"TypeError", "object", "does", "not", "support", "the", "context", "manager", "protocol">>
ExAssertion == <<"AssertionError">>

\* An id that no row has.
Missing == 3
BulkIds == Ids \cup {Missing}

\* cls.filter(id__in=id_list): the ids of the stored rows among id_list, in id order.
filter_id_in(dbv, id_list) == SortedIds({i \in Ids : i \in id_list /\ dbv[i].exists})

\* for obj in obj_list: obj.save_model(user, **values(obj.id)), inside one
\* transaction: the first failure ends the loop and rolls the store back.
RECURSIVE SaveEach(_, _, _, _, _, _, _)

\* After one save with outcome r: its exception leaves the loop, else the loop
\* goes on with the rest of obj_list.
SaveRest(dbv0, hist, r, rest, valuesOf, user, t) ==
    IF r.raised # NoException
    THEN [db |-> dbv0, history |-> hist, raised |-> r.raised]
    ELSE SaveEach(dbv0, r.db, r.history, rest, valuesOf, user, t)

SaveEach(dbv0, dbv, hist, obj_list, valuesOf, user, t) ==
    IF obj_list = <<>>
    THEN [db |-> dbv, history |-> hist, raised |-> NoException]
    ELSE SaveRest(dbv0, hist,
                  save_model(dbv, hist, get(dbv, Head(obj_list)), t, user, FALSE,
                             valuesOf[Head(obj_list)]),
                  Tail(obj_list), valuesOf, user, t)

\* The except clause on the outcome r of the loop.
BulkExcept(r, hist, entry) ==
    IF r.raised # NoException
    THEN [db |-> r.db, history |-> hist, raised |-> NoException,
          errors |-> <<[entry EXCEPT !.ex = r.raised]>>]
    ELSE [db |-> r.db, history |-> r.history, raised |-> NoException,
          errors |-> <<>>]

\* The try block shared by set_bulk and set_bulk_targeted: whatever is raised
\* inside it, by the `with` statement or by a save, is caught and logged once
\* with Log.error; nothing is raised to the caller.
BulkTry(dbv, hist, obj_list, valuesOf, user, t, entry) ==
    IF ~IsContextManager(transaction_atomic)
    THEN [db |-> dbv, history |-> hist, raised |-> NoException,
          errors |-> <<[entry EXCEPT !.ex = ExNotContextManager]>>]
    ELSE BulkExcept(SaveEach(dbv, dbv, hist, obj_list, valuesOf, user, t), hist, entry)

\* set_bulk(id_list, update_vals, user)
set_bulk(dbv, hist, id_list, update_vals, user, t) ==
    BulkTry(dbv, hist, filter_id_in(dbv, id_list), [i \in Ids |-> update_vals], user, t,
            [ids |-> id_list, values |-> update_vals, ex |-> NoException])

\* `dict_vals is type(dict)`: type(dict) is the class `type`, which no mapping is.
IsTypeOfDict(dict_vals) == FALSE

\* set_bulk_targeted(dict_vals); asserts tells whether the interpreter runs
\* assert statements (it does unless started with -O).
set_bulk_targeted(dbv, hist, dict_vals, asserts, t) ==
    IF asserts /\ ~IsTypeOfDict(dict_vals)
    THEN [db |-> dbv, history |-> hist, raised |-> ExAssertion, errors |-> <<>>]
    ELSE BulkTry(dbv, hist, filter_id_in(dbv, DOMAIN dict_vals),
                 [i \in Ids |-> IF i \in DOMAIN dict_vals THEN dict_vals[i] ELSE EmptyDict],
                 NoUser, t,
                 [ids |-> DOMAIN dict_vals, values |-> dict_vals, ex |-> NoException])

\* The stores a bulk call can find: names are unique among the stored rows.
BulkRows ==
    [exists : BOOLEAN, name : {StrV(n) : n \in Names}, owner_id : {None, IntV(1)},
     tags : {{}}, created : {0}, updated : {0}]
BulkStores ==
    {d \in [Ids -> BulkRows] :
        (d[Subject].exists /\ d[Other].exists) => d[Subject].name # d[Other].name}

\* The values and the batches callers propose.
BulkProposals == (NameOpts \cup {"owner_id" :> IntV(1)}) \ {EmptyDict}
BulkMaps == UNION {[S -> BulkProposals] : S \in (SUBSET BulkIds) \ {{}}}

BulkInit ==
    /\ RetryInit
    /\ db \in BulkStores
    /\ inst = get(InitDb, Subject)
    /\ now = 0
    /\ history = <<>>
    /\ last = NoCall
    /\ LinksUnused
    /\ XrefsUnused

BulkRecord(op, ids, valuesOf, user, r) ==
    [op |-> op, ids |-> ids, values |-> valuesOf, user |-> user, pre |-> db,
     raised |-> r.raised, errors |-> r.errors]

\* The call with outcome r takes effect on the store and is recorded.
BulkApply(op, ids, valuesOf, user, r) ==
    /\ db' = r.db
    /\ history' = r.history
    /\ last' = BulkRecord(op, ids, valuesOf, user, r)

\* cls.set_bulk(id_list, update_vals, user)
SetBulkCall(id_list, update_vals, user) ==
    /\ last = NoCall
    /\ BulkApply("set_bulk", id_list, [i \in id_list |-> update_vals], user,
                 set_bulk(db, history, id_list, update_vals, user, now))
    /\ UNCHANGED <<inst, now>>

\* cls.set_bulk_targeted(dict_vals)
SetBulkTargetedCall(dict_vals, asserts) ==
    /\ last = NoCall
    /\ BulkApply("set_bulk_targeted", DOMAIN dict_vals, dict_vals, NoUser,
                 set_bulk_targeted(db, history, dict_vals, asserts, now))
    /\ UNCHANGED <<inst, now>>

BulkReturn ==
    /\ last # NoCall
    /\ last' = NoCall
    /\ UNCHANGED <<db, inst, now, history>>

BulkNext ==
    \/ \E id_list \in SUBSET BulkIds, update_vals \in BulkProposals,
          user \in Users \cup {NoUser} : SetBulkCall(id_list, update_vals, user)
    \/ \E dict_vals \in BulkMaps, asserts \in BOOLEAN :
          SetBulkTargetedCall(dict_vals, asserts)
    \/ BulkReturn

SpecBulk == BulkInit /\ [][BulkNext /\ UNCHANGED <<rvars, lvars, xvars>>]_vars

(***************************************************************************)
(* create_model                                                            *)
(***************************************************************************)

\* The names create_model can read: its parameters and what the module binds.
BoundNames == {"cls", "magic_user_object", "kwargs"}
IsBound(name) == name \in BoundNames

ExNameError == <<"NameError", "name", "agile_user_object", "is", "not", "defined">>

\* The id the table gives its next row.
NextId(table) == IF table = {} THEN 1
                 ELSE 1 + (CHOOSE m \in {r.id : r \in table} : \A r \in table : r.id <= m)

\* A create_model whose first statement reads the parameter it was given.
create_model_reads_parameter(table, kwargs) ==
    LET obj == [id |-> NextId(table)] @@ kwargs
    IN  [raised |-> NoException, table |-> table \cup {obj}, obj |-> obj]

\* create_model(**kwargs) on a table: its first statement passes
\* agile_user_object to clean_kwargs, a name nothing binds, so it raises before
\* objects.create; else the row is inserted and returned.
create_model(table, kwargs) ==
    IF ~IsBound("agile_user_object")
    THEN [raised |-> ExNameError, table |-> table, obj |-> None]
    ELSE LET obj == [id |-> NextId(table)] @@ kwargs
         IN  [raised |-> NoException, table |-> table \cup {obj}, obj |-> obj]

(***************************************************************************)
(* GenericModelRelationship and GenericRelationshipMixin                   *)
(***************************************************************************)

\* Entities of two kinds; the kind stands for the content type.
Entity(kind, id) == [kind |-> kind, id |-> id]
Kinds == {"A", "B"}
Ents == {Entity("A", 1), Entity("A", 2), Entity("B", 1)}

\* The columns of a link.
LinkFields(parent_obj, child_obj) ==
    [parent_relation_id |-> parent_obj.kind, parent_model_id |-> parent_obj.id,
     child_relation_id |-> child_obj.kind, child_model_id |-> child_obj.id]

\* Rows in id order, as a queryset without order_by yields them.
RECURSIVE ById(_)
ById(rows) ==
    IF rows = {} THEN <<>>
    ELSE LET r == CHOOSE x \in rows : \A y \in rows : x.id <= y.id
         IN  <<r>> \o ById(rows \ {r})

\* cls.get(**filters): qs.first() if qs else None
first(rows) == IF rows = {} THEN None ELSE Head(ById(rows))

Matches(row, filters) == \A f \in DOMAIN filters : row[f] = filters[f]

\* get_relation(parent_obj, child_obj)
get_relation(table, parent_obj, child_obj) ==
    first({l \in table : Matches(l, LinkFields(parent_obj, child_obj))})

\* add_relation(parent_obj, child_obj); add_relation_by_id builds the same row
\* from the child's class and id.
add_relation(table, parent_obj, child_obj) ==
    create_model(table, LinkFields(parent_obj, child_obj))

add_relation_by_id(table, parent_obj, child_class, child_id) ==
    create_model(table, LinkFields(parent_obj, Entity(child_class, child_id)))

\* A remove_relation that removes the reverse link whatever both says.
remove_relation_reverse_too(table, parent_obj, child_obj, both) ==
    LET fwd == {l \in table : Matches(l, LinkFields(parent_obj, child_obj))}
        rev == {l \in table : Matches(l, LinkFields(child_obj, parent_obj))}
    IN  [table |-> table \ (fwd \cup rev), ret |-> (fwd \cup rev # {})]

\* remove_relation(parent_obj, child_obj, both)
remove_relation(table, parent_obj, child_obj, both) ==
    LET fwd == get_relation(table, parent_obj, child_obj)
        t1 == IF fwd # None THEN table \ {fwd} ELSE table
        rev == IF both THEN get_relation(t1, child_obj, parent_obj) ELSE None
        t2 == IF rev # None THEN t1 \ {rev} ELSE t1
    IN  [table |-> t2, ret |-> (fwd # None \/ rev # None)]

\* get_relations(parent_obj, child_class), get_reverse_relations(child_obj,
\* parent_class), get_all_relations(parent_obj): the filtered rows.
get_relations(table, parent_obj, child_class) ==
    ById({l \in table : /\ l.parent_relation_id = parent_obj.kind
                        /\ l.parent_model_id = parent_obj.id
                        /\ l.child_relation_id = child_class})

get_reverse_relations(table, child_obj, parent_class) ==
    ById({l \in table : /\ l.parent_relation_id = parent_class
                        /\ l.child_model_id = child_obj.id
                        /\ l.child_relation_id = child_obj.kind})

get_all_relations(table, parent_obj) ==
    ById({l \in table : /\ l.parent_relation_id = parent_obj.kind
                        /\ l.parent_model_id = parent_obj.id})

\* rel.child without a call: the bound method, which is true in a condition and
\* has no attribute id.
BoundMethod(rel, name) == [k |-> "method", name |-> name, self |-> rel.id]
Truthy(v) == v # None
HasId(v) == "id" \in DOMAIN v

ExAttributeError == <<"AttributeError", "method", "object", "has", "no", "attribute", "id">>

\* check_relations(rels) with add_obj left at None
RECURSIVE check_relations(_, _)
check_relations(rels, rel_list) ==
    IF rels = <<>>
    THEN [raised |-> NoException, ret |-> rel_list]
    ELSE LET child == BoundMethod(Head(rels), "child")
         IN  IF ~Truthy(child) THEN check_relations(Tail(rels), rel_list)
             ELSE IF ~HasId(child) THEN [raised |-> ExAttributeError, ret |-> None]
             ELSE IF child.id \in {rel_list[i].id : i \in DOMAIN rel_list}
             THEN check_relations(Tail(rels), rel_list)
             ELSE check_relations(Tail(rels), Append(rel_list, child))

get_relation_list(table, parent_obj, child_class) ==
    check_relations(get_relations(table, parent_obj, child_class), <<>>)

get_reverse_relation_list(table, child_obj, parent_class) ==
    check_relations(get_reverse_relations(table, child_obj, parent_class), <<>>)

\* get_sorted_relations(parent_obj): child_relation -> [r.child, ...]
get_sorted_relations(table, parent_obj) ==
    LET rels == get_all_relations(table, parent_obj)
        keys == {rels[i].child_relation_id : i \in DOMAIN rels}
    IN  [raised |-> NoException,
         ret |-> [key \in keys |->
                    LET mine == SelectSeq(rels, LAMBDA r : r.child_relation_id = key)
                    IN  [i \in DOMAIN mine |-> BoundMethod(mine[i], "child")]]]

\* The callers that may be inside set_generic_relation at the same time.
Callers == {"c1", "c2"}
IdleCall == [pc |-> "idle"]

\* The link stores a call can find: at most one row per (parent, child) pair.
PairSeq ==
    <<<<Entity("A", 1), Entity("B", 1)>>, <<Entity("B", 1), Entity("A", 1)>>,
      <<Entity("A", 2), Entity("B", 1)>>, <<Entity("B", 1), Entity("A", 2)>>,
      <<Entity("A", 1), Entity("A", 2)>>, <<Entity("A", 2), Entity("A", 1)>>>>
LinkStores ==
    {{[id |-> i] @@ LinkFields(PairSeq[i][1], PairSeq[i][2]) : i \in I} :
        I \in SUBSET DOMAIN PairSeq}
LiveSets == {S \in SUBSET Ents : Entity("A", 1) \in S}

LinkInit ==
    /\ RetryInit
    /\ db = InitDb
    /\ inst = get(InitDb, Subject)
    /\ now = 0
    /\ history = <<>>
    /\ last = NoCall
    /\ links \in LinkStores
    /\ live \in LiveSets
    /\ call = [c \in Callers |-> IdleCall]
    /\ XrefsUnused

AllIdle == \A c \in Callers : call[c] = IdleCall

\* self.set_generic_relation(model_obj, both), entered: rel1 is looked up.
SetRelationBegin(c, self, model_obj, both) ==
    /\ last = NoCall
    /\ call[c] = IdleCall
    /\ call' = [call EXCEPT ![c] =
                  [pc |-> "rel1", self |-> self, model_obj |-> model_obj, both |-> both,
                   found |-> get_relation(links, model_obj, self),
                   rel1 |-> None, rel2 |-> None, raised |-> NoException]]
    /\ UNCHANGED <<links, live, last>>

\* set_generic_relation goes on: a link that was not found is added, and with
\* both the reverse link is looked up next.
SetRelationStep(c) ==
    /\ call[c].pc \in {"rel1", "rel2"}
    /\ LET me == call[c]
           parent_obj == IF me.pc = "rel1" THEN me.model_obj ELSE me.self
           child_obj == IF me.pc = "rel1" THEN me.self ELSE me.model_obj
           r == IF me.found = None
                THEN add_relation(links, parent_obj, child_obj)
                ELSE [raised |-> NoException, table |-> links, obj |-> me.found]
       IN  /\ links' = r.table
           /\ call' = [call EXCEPT ![c] =
                 IF r.raised # NoException
                 THEN [me EXCEPT !.pc = "raised", !.raised = r.raised]
                 ELSE IF me.pc = "rel1" /\ me.both
                 THEN [me EXCEPT !.pc = "rel2", !.rel1 = r.obj,
                                 !.found = get_relation(r.table, me.self, me.model_obj)]
                 ELSE IF me.pc = "rel1"
                 THEN [me EXCEPT !.pc = "done", !.rel1 = r.obj, !.rel2 = FALSE]
                 ELSE [me EXCEPT !.pc = "done", !.rel2 = r.obj]]
    /\ UNCHANGED <<live, last>>

\* The caller has its (rel1, rel2) or its exception.
SetRelationReturn(c) ==
    /\ call[c].pc \in {"done", "raised"}
    /\ call' = [call EXCEPT ![c] = IdleCall]
    /\ UNCHANGED <<links, live, last>>

LinkRecord(op, args, table, r) ==
    [op |-> op, args |-> args, pre |-> links, raised |-> r.raised, ret |-> r.ret]

\* GenericModelRelationship.add_relation(parent_obj, child_obj)
AddRelationCall(parent_obj, child_obj) ==
    /\ last = NoCall
    /\ LET r == add_relation(links, parent_obj, child_obj)
       IN  /\ links' = r.table
           /\ last' = LinkRecord("add_relation", <<parent_obj, child_obj>>, links,
                                 [raised |-> r.raised, ret |-> r.obj])
    /\ UNCHANGED <<live, call>>

\* GenericModelRelationship.add_relation_by_id(parent_obj, child_class, child_id)
AddRelationByIdCall(parent_obj, child_obj) ==
    /\ last = NoCall
    /\ LET r == add_relation_by_id(links, parent_obj, child_obj.kind, child_obj.id)
       IN  /\ links' = r.table
           /\ last' = LinkRecord("add_relation_by_id", <<parent_obj, child_obj>>, links,
                                 [raised |-> r.raised, ret |-> r.obj])
    /\ UNCHANGED <<live, call>>

\* GenericModelRelationship.remove_relation(parent_obj, child_obj, both)
RemoveRelationCall(parent_obj, child_obj, both) ==
    /\ last = NoCall
    /\ AllIdle
    /\ LET r == remove_relation(links, parent_obj, child_obj, both)
       IN  /\ links' = r.table
           /\ last' = LinkRecord("remove_relation", <<parent_obj, child_obj, both>>, links,
                                 [raised |-> NoException, ret |-> r.ret])
    /\ UNCHANGED <<live, call>>

\* The lookups.
GetRelationListCall(parent_obj, child_class) ==
    /\ last = NoCall
    /\ AllIdle
    /\ last' = LinkRecord("get_relation_list", <<parent_obj, child_class>>, links,
                          get_relation_list(links, parent_obj, child_class))
    /\ UNCHANGED <<links, live, call>>

GetReverseRelationListCall(child_obj, parent_class) ==
    /\ last = NoCall
    /\ AllIdle
    /\ last' = LinkRecord("get_reverse_relation_list", <<child_obj, parent_class>>, links,
                          get_reverse_relation_list(links, child_obj, parent_class))
    /\ UNCHANGED <<links, live, call>>

GetSortedRelationsCall(parent_obj) ==
    /\ last = NoCall
    /\ AllIdle
    /\ last' = LinkRecord("get_sorted_relations", <<parent_obj>>, links,
                          get_sorted_relations(links, parent_obj))
    /\ UNCHANGED <<links, live, call>>

LinkReturn ==
    /\ last # NoCall
    /\ last' = NoCall
    /\ UNCHANGED <<links, live, call>>

LinkNext ==
    \/ \E c \in Callers, model_obj \in {Entity("A", 1), Entity("A", 2)}, both \in BOOLEAN :
          SetRelationBegin(c, Entity("B", 1), model_obj, both)
    \/ \E c \in Callers : SetRelationStep(c)
    \/ \E c \in Callers : SetRelationReturn(c)
    \/ \E p \in Ents, c \in Ents : p # c /\ AddRelationCall(p, c)
    \/ \E p \in Ents, c \in Ents : p # c /\ AddRelationByIdCall(p, c)
    \/ \E p \in Ents, c \in Ents, both \in BOOLEAN : p # c /\ RemoveRelationCall(p, c, both)
    \/ \E p \in Ents, k \in Kinds : GetRelationListCall(p, k)
    \/ \E c \in Ents, k \in Kinds : GetReverseRelationListCall(c, k)
    \/ \E p \in Ents : GetSortedRelationsCall(p)
    \/ LinkReturn

SpecLinks == LinkInit /\ [][LinkNext /\ UNCHANGED <<rvars, db, inst, now, history, xvars>>]_vars

(***************************************************************************)
(* XrefMixin and the ExternalXref table                                    *)
(***************************************************************************)

\* RecordSource objects, cls.get_content_type() of the entity kind, and the
\* external keys callers pass (a text and a number).
RecordSource(id, org) == [k |-> "RecordSource", id |-> id, organization |-> org]
Crm == RecordSource(1, 1)
ContentType == "entity"
SourceKeys == {StrV("k1"), IntV(7)}

\* str(v)
Str(v) ==
    CASE v.k = "str" -> v.s
      [] v.k = "int" -> (CASE v.n = 1 -> "1" [] v.n = 2 -> "2" [] v.n = 7 -> "7"
                           [] OTHER -> "0")
      [] OTHER -> "None"

\* bool(v)
Bool(v) ==
    CASE v = None -> FALSE
      [] v.k = "int" -> v.n # 0
      [] v.k = "str" -> v.s # ""
      [] OTHER -> TRUE

\* The value of the RecordSource a row refers to.
SourceValue(id) == IF id = 1 THEN "crm" ELSE "erp"

\* The columns a filter can name on an ExternalXref row, the joined ones included.
XrefColumns(row) ==
    row @@ ("record_source__value" :> SourceValue(row.record_source_id)
            @@ "record_source__organization_id" :> row.organization_id)

\* The filters get_model_xref builds.
XrefFilters(r_source_obj, source_key, this_key, org_id) ==
    LET kind == "content_type" :> ContentType
        scope == IF r_source_obj.k = "RecordSource"
                 THEN "record_source_id" :> r_source_obj.id
                 ELSE IF Bool(org_id)
                      THEN (IF Bool(r_source_obj) /\ r_source_obj.k = "str"
                            THEN ("record_source__value" :> Str(r_source_obj)
                                  @@ "record_source__organization_id" :> org_id.n)
                            ELSE "organization_id" :> org_id.n)
                      ELSE EmptyDict
        key == IF Bool(source_key) THEN "source_id" :> Str(source_key)
               ELSE IF Bool(this_key) THEN "key" :> this_key.n
               ELSE EmptyDict
    IN  kind @@ scope @@ key

\* get_model_xref(r_source_obj, source_key, this_key, org_id=org_id) with
\* first_val left True: the first matching row or None.
get_model_xref(table, r_source_obj, source_key, this_key, org_id) ==
    LET filters == XrefFilters(r_source_obj, source_key, this_key, org_id)
    IN  first({x \in table : Matches(XrefColumns(x), filters)})

\* self.get_all_xref(r_source_obj, org_id): get_model_xref with this_key=self.id
\* and first_val=False, every matching row.
get_all_xref(table, self_id, r_source_obj, org_id) ==
    LET filters == XrefFilters(r_source_obj, None, self_id, org_id)
    IN  {x \in table : Matches(XrefColumns(x), filters)}

\* self.clear_xref(r_source_obj, org_id): every row of get_all_xref is deleted.
clear_xref(table, self_id, r_source_obj, org_id) ==
    table \ get_all_xref(table, self_id, r_source_obj, org_id)

\* xr.instance: the entity the cross-reference points to, None once deleted.
instance(dbv, xr) ==
    IF xr.key \in Ids /\ dbv[xr.key].exists THEN get(dbv, xr.key) ELSE None

\* ExternalXref.save_or_create_model(filter_dict, **kwargs): the row matching
\* the filter is re-associated with the given values, else one row is created.
save_or_create_model(table, filter_dict, kwargs) ==
    LET found == first({x \in table : Matches(x, filter_dict)})
    IN  IF found # None
        THEN LET upd == [f \in DOMAIN found |->
                            IF f \in DOMAIN kwargs THEN kwargs[f] ELSE found[f]]
             IN  [table |-> (table \ {found}) \cup {upd}, xr |-> upd,
                  updated |-> upd # found]
        ELSE LET obj == [id |-> NextId(table)] @@ kwargs @@ ("ext_changed" :> None)
             IN  [table |-> table \cup {obj}, xr |-> obj, updated |-> TRUE]

ExNoRecordSource == <<"Exception", "Record", "Source", "object", "must", "be", "provided">>

\* A make_model_xref whose lookup also filters by the entity's own id.
make_model_xref_filters_key(table, self_id, r_source_obj, source_key, set_updated_date, t) ==
    IF r_source_obj = None \/ r_source_obj.k = "str"
    THEN [raised |-> ExNoRecordSource, table |-> table, xr |-> None]
    ELSE LET params == ("record_source_id" :> r_source_obj.id
                        @@ "organization_id" :> r_source_obj.organization
                        @@ "source_id" :> Str(source_key)
                        @@ "key" :> self_id
                        @@ "content_type" :> ContentType)
             r == save_or_create_model(table, params, params)
         IN  [raised |-> NoException, table |-> r.table, xr |-> r.xr]

\* self.make_model_xref(r_source_obj, source_key, set_updated_date); source_id
\* is a text column, so the key is stored and compared as str(source_key).
make_model_xref(table, self_id, r_source_obj, source_key, set_updated_date, t) ==
    IF r_source_obj = None \/ r_source_obj.k = "str"
    THEN [raised |-> ExNoRecordSource, table |-> table, xr |-> None]
    ELSE LET upd_or_create_params ==
                 ("record_source_id" :> r_source_obj.id
                  @@ "organization_id" :> r_source_obj.organization
                  @@ "source_id" :> Str(source_key)
                  @@ "key" :> self_id
                  @@ "content_type" :> ContentType
                  @@ (IF set_updated_date THEN "ext_changed" :> IntV(t) ELSE EmptyDict))
             filter_dict ==
                 ("content_type" :> ContentType
                  @@ "record_source_id" :> r_source_obj.id
                  @@ "organization_id" :> r_source_obj.organization
                  @@ "source_id" :> Str(source_key))
             r == save_or_create_model(table, filter_dict, upd_or_create_params)
         IN  [raised |-> NoException, table |-> r.table, xr |-> r.xr]

\* The entity table as the rows create_model inserts into, and back.
EntityRows(dbv) == {[id |-> i] @@ dbv[i] : i \in {j \in Ids : dbv[j].exists}}

StoreEntity(dbv, obj, t) ==
    [i \in Ids |->
        IF i = obj.id
        THEN [exists |-> TRUE,
              name |-> IF "name" \in DOMAIN obj THEN obj.name ELSE None,
              owner_id |-> IF "owner_id" \in DOMAIN obj THEN obj.owner_id ELSE None,
              tags |-> {}, created |-> t, updated |-> t]
        ELSE dbv[i]]

\* external_model_create_or_diff after its lookup returned xr: the entity and
\* its cross-reference are created when xr or its entity is missing, else the
\* entity is compared with obj_dict.
external_model_create_or_diff(dbv, table, xr, record_source, source_id, obj_dict, obj_create_dict, t) ==
    IF xr = None \/ instance(dbv, xr) = None
    THEN LET kw == IF obj_create_dict # None THEN obj_create_dict @@ obj_dict
                   ELSE obj_dict
             c == create_model(EntityRows(dbv), kw)
         IN  IF c.raised # NoException
             THEN [db |-> dbv, xrefs |-> table, raised |-> c.raised,
                   xr_update |-> None, obj_data |-> None, xr_id |-> None]
             ELSE IF xr = None
                  THEN LET m == make_model_xref(table, c.obj.id, record_source,
                                                source_id, FALSE, t)
                       IN  [db |-> StoreEntity(dbv, c.obj, t), xrefs |-> m.table,
                            raised |-> m.raised, xr_update |-> None,
                            obj_data |-> [obj |-> c.obj, created |-> TRUE],
                            xr_id |-> IF m.xr = None THEN None ELSE IntV(m.xr.id)]
                  ELSE [db |-> StoreEntity(dbv, c.obj, t), xrefs |-> table,
                        raised |-> NoException,
                        xr_update |-> [xr |-> xr, obj_id |-> c.obj.id],
                        obj_data |-> [obj |-> c.obj, created |-> TRUE],
                        xr_id |-> IntV(xr.id)]
    ELSE LET obj == instance(dbv, xr)
             upd_obj == model_differences(obj, obj_dict)
         IN  [db |-> dbv, xrefs |-> table, raised |-> NoException,
              xr_update |-> None,
              obj_data |-> IF upd_obj # EmptyDict
                           THEN [obj |-> obj, data |-> upd_obj, created |-> FALSE]
                           ELSE [obj |-> obj, created |-> FALSE],
              xr_id |-> IntV(xr.id)]

\* A stored cross-reference.
Xref(id, source_id, key) ==
    [id |-> id, content_type |-> ContentType, record_source_id |-> Crm.id,
     organization_id |-> Crm.organization, source_id |-> source_id, key |-> key,
     ext_changed |-> None]

\* A cross-reference of entity 1 in the second record source.
ErpXref == [Xref(2, "k1", 1) EXCEPT !.record_source_id = 2]

\* The stores the model starts from: none, one or two cross-references, and
\* entity 2 stored or deleted; entity 1 has owner 1.
XrefStores == {{}, {Xref(1, "k1", 1)}, {Xref(1, "k1", 2)},
               {Xref(1, "k1", 1), Xref(2, "7", 2)}}

\* The stores clear_xref is called on: also entity 1 known to two sources.
ClearStores == XrefStores \cup {{Xref(1, "k1", 1), ErpXref},
                                {Xref(1, "k1", 1), ErpXref, Xref(3, "7", 2)}}

XrefDbs ==
    {[InitDb EXCEPT ![Subject].owner_id = IntV(1), ![Other].exists = e] :
        e \in BOOLEAN}

\* What reconciling callers propose, and the extra fields for a creation.
XrefProposals == {"name" :> StrV("a"), "name" :> StrV("b"), "owner" :> IntV(1)}
CreateDicts == {None, "owner_id" :> IntV(1)}

XrefInit ==
    /\ RetryInit
    /\ db \in XrefDbs
    /\ inst = get(InitDb, Subject)
    /\ now = 0
    /\ history = <<>>
    /\ last = NoCall
    /\ LinksUnused
    /\ xrefs \in XrefStores
    /\ xcall = [c \in Callers |-> IdleCall]

\* cls.external_model_create_or_diff(org_id, record_source, source_id, obj_dict,
\* obj_create_dict) by caller c, up to the return of its get_model_xref.
ReconcileBegin(c, record_source, source_id, obj_dict, obj_create_dict) ==
    /\ xcall[c] = IdleCall
    /\ xcall' = [xcall EXCEPT ![c] =
                    [pc |-> "looked", record_source |-> record_source,
                     source_id |-> source_id, obj_dict |-> obj_dict,
                     obj_create_dict |-> obj_create_dict,
                     xr |-> get_model_xref(xrefs, record_source, source_id, None,
                                           IntV(record_source.organization))]]
    /\ UNCHANGED <<db, history, last, xrefs>>

\* The rest of the call of caller c, to its return or its exception.
ReconcileStep(c) ==
    /\ xcall[c] # IdleCall
    /\ last = NoCall
    /\ LET a == xcall[c]
           r == external_model_create_or_diff(db, xrefs, a.xr, a.record_source,
                    a.source_id, a.obj_dict, a.obj_create_dict, now)
       IN  /\ db' = r.db
           /\ xrefs' = r.xrefs
           /\ last' = [op |-> "external_model_create_or_diff", caller |-> c,
                       source_id |-> a.source_id, obj_dict |-> a.obj_dict,
                       obj_create_dict |-> a.obj_create_dict, xr |-> a.xr,
                       pre |-> [db |-> db, xrefs |-> xrefs, history |-> history],
                       raised |-> r.raised, xr_update |-> r.xr_update,
                       obj_data |-> r.obj_data, xr_id |-> r.xr_id]
    /\ xcall' = [xcall EXCEPT ![c] = IdleCall]
    /\ UNCHANGED history

\* Entity self_id calls make_model_xref(r_source_obj, source_key, set_updated_date).
MakeModelXrefCall(self_id, r_source_obj, source_key, set_updated_date) ==
    /\ last = NoCall
    /\ db[self_id].exists
    /\ LET r == make_model_xref(xrefs, self_id, r_source_obj, source_key,
                                set_updated_date, now)
       IN  /\ xrefs' = r.table
           /\ last' = [op |-> "make_model_xref", self_id |-> self_id,
                       source_key |-> source_key, pre |-> [xrefs |-> xrefs],
                       raised |-> r.raised, xr |-> r.xr]
    /\ UNCHANGED <<db, history, xcall>>

\* An entity with id self_id (None before its first save) calls
\* clear_xref(r_source_obj, org_id).
ClearXrefCall(self_id, r_source_obj, org_id) ==
    /\ last = NoCall
    /\ xrefs' = clear_xref(xrefs, self_id, r_source_obj, org_id)
    /\ last' = [op |-> "clear_xref", self_id |-> self_id, r_source_obj |-> r_source_obj,
                org_id |-> org_id, pre |-> [xrefs |-> xrefs], raised |-> NoException]
    /\ UNCHANGED <<db, history, xcall>>

\* The call is over.
XrefReturn ==
    /\ last # NoCall
    /\ last' = NoCall
    /\ UNCHANGED <<db, history, xrefs, xcall>>

XrefNext ==
    \/ \E c \in Callers, source_id \in SourceKeys, obj_dict \in XrefProposals,
          obj_create_dict \in CreateDicts :
          ReconcileBegin(c, Crm, source_id, obj_dict, obj_create_dict)
    \/ \E c \in Callers : ReconcileStep(c)
    \/ \E self_id \in Ids, r_source_obj \in {Crm, None}, source_key \in SourceKeys :
          MakeModelXrefCall(self_id, r_source_obj, source_key, FALSE)
    \/ XrefReturn

SpecXref == XrefInit /\ [][XrefNext /\ UNCHANGED <<rvars, inst, now, lvars>>]_vars

\* clear_xref on its own, from every store.
ClearInit ==
    /\ RetryInit
    /\ db \in XrefDbs
    /\ inst = get(InitDb, Subject)
    /\ now = 0
    /\ history = <<>>
    /\ last = NoCall
    /\ LinksUnused
    /\ xrefs \in ClearStores
    /\ xcall = [c \in Callers |-> IdleCall]

ClearNext ==
    \/ \E self_id \in {IntV(i) : i \in Ids} \cup {None},
          r_source_obj \in {Crm, StrV("crm"), None}, org_id \in {None, IntV(1)} :
          ClearXrefCall(self_id, r_source_obj, org_id)
    \/ XrefReturn

SpecClearXref == ClearInit /\ [][ClearNext /\ UNCHANGED <<rvars, inst, now, lvars>>]_vars

(***************************************************************************)
(* HistoryMixin: the audit writes and their retries                        *)
(***************************************************************************)

\* The nesting of log_model_change calls at which the interpreter raises
\* RecursionError, counted in audit write attempts.
MaxDepth == 14
ExRecursion == <<"RecursionError", "maximum", "recursion", "depth", "exceeded">>

AuditProposals == {"name" :> StrV("b"), "owner_id" :> IntV(1)}
AuditOps == {"log_model_change", "log_model_access"}

\* The row a successful audit write adds; AccessHistory rows are kept in the
\* same table with the type ACCESS.
AuditRow(op, self, user) ==
    IF op = "log_model_access"
    THEN [key |-> self.id, type |-> "ACCESS", user |-> user]
    ELSE HistoryRow(log_model_change(self, user, {}, "UPDATED", "GENERAL"))

\* save_model up to its call of log_model_update, with outcome r of the entity
\* write: the entity is written, the audit write is still to come.
BeginSaveWith(kw, user, r) ==
    /\ r.raised = NoException
    /\ r.changed
    /\ db' = r.db
    /\ inst' = r.inst
    /\ last' = [op |-> "save_model", pc |-> "audit", user |-> user, kwargs |-> kw,
                pre |-> [db |-> db, history |-> history], written |-> r.db,
                data |-> r.data, audit |-> r.history, raised |-> NoException,
                returned |-> None]

\* inst.save_model(user, **kw) by a known user, on a proposal that differs.
BeginSave(kw, user) ==
    /\ rpc = "idle"
    /\ last = NoCall
    /\ BeginSaveWith(kw, user, save_model(db, history, inst, now, user, FALSE, kw))
    /\ UNCHANGED <<now, history>>
    /\ UNCHANGED rvars

\* inst.log_model_change(user, ...) or inst.log_model_access(user) called directly.
BeginLog(op, user) ==
    /\ rpc = "idle"
    /\ last = NoCall
    /\ last' = [op |-> op, pc |-> "audit", user |-> user, kwargs |-> EmptyDict,
                pre |-> [db |-> db, history |-> history], written |-> db,
                data |-> None, audit |-> Append(history, AuditRow(op, inst, user)),
                raised |-> NoException, returned |-> None]
    /\ UNCHANGED <<db, inst, now, history>>
    /\ UNCHANGED rvars

\* The objects.create of log_model_change / log_model_access with outcome o; its
\* failure is handed to wsrep_retry with the function itself as f.
AuditWrite(o) ==
    /\ last # NoCall
    /\ last.pc = "audit"
    /\ rpc = "idle"
    /\ attempts' = attempts + 1
    /\ outcomes' = Append(outcomes, o)
    /\ IF o.ok
       THEN /\ rpc' = "returned"
            /\ ret' = o.val
            /\ UNCHANGED <<rex, rcount, rautolog>>
       ELSE /\ rpc' = "pending"
            /\ rex' = o.ex
            /\ rcount' = 0
            /\ rautolog' = TRUE
            /\ UNCHANGED ret
    /\ UNCHANGED <<slept, crit, raised>>
    /\ UNCHANGED <<db, inst, now, history, last>>

\* wsrep_retry(ex, self.log_model_change, ...): for a transient ex it sleeps and
\* calls f, which writes again and, when that write fails, catches the failure
\* itself and enters a new wsrep_retry with count 0 inside the call; the except
\* clause of this level is reached only when the nested level raises. At
\* MaxDepth the call of f raises RecursionError instead of writing. A failure
\* that is not transient is logged and raised, and every enclosing level
\* catches it, passes it to wsrep_retry again (its count is still under the
\* limit), which logs and raises it: one critical log entry per level.
AuditRetry(o) ==
    /\ last # NoCall
    /\ last.pc = "audit"
    /\ rpc = "pending"
    /\ IF IsTransient(rex)
       THEN /\ slept' = slept + SleepSeconds
            /\ IF attempts >= MaxDepth
               THEN /\ rpc' = "pending"
                    /\ rex' = ExRecursion
                    /\ UNCHANGED <<attempts, outcomes, ret>>
               ELSE /\ attempts' = attempts + 1
                    /\ outcomes' = Append(outcomes, o)
                    /\ IF o.ok
                       THEN /\ rpc' = "returned"
                            /\ ret' = o.val
                            /\ UNCHANGED rex
                       ELSE /\ rpc' = "pending"
                            /\ rex' = o.ex
                            /\ UNCHANGED ret
            /\ UNCHANGED <<rcount, rautolog, crit, raised>>
       ELSE /\ rpc' = "raised"
            /\ raised' = rex
            /\ crit' = IF CanRetry(rcount) THEN crit + attempts ELSE crit + 1
            /\ UNCHANGED <<rex, rcount, rautolog, attempts, slept, outcomes, ret>>
    /\ UNCHANGED <<db, inst, now, history, last>>

\* The audit write is over: its row is stored and the operation returns, or its
\* exception leaves the operation, which has no handler around the audit call.
AuditOver ==
    /\ last # NoCall
    /\ last.pc = "audit"
    /\ rpc \in {"returned", "raised"}
    /\ history' = IF rpc = "returned" THEN last.audit ELSE history
    /\ last' = [last EXCEPT !.pc = "over", !.raised = raised,
                            !.returned = IF rpc # "returned" THEN None
                                         ELSE IF last.op = "save_model"
                                              THEN [changed |-> TRUE, data |-> last.data]
                                              ELSE [row |-> ret]]
    /\ UNCHANGED <<db, inst, now>>
    /\ UNCHANGED rvars

AuditNext ==
    \/ \E kw \in AuditProposals, user \in Users : BeginSave(kw, user)
    \/ \E op \in AuditOps, user \in Users : BeginLog(op, user)
    \/ \E o \in Outcomes : AuditWrite(o)
    \/ \E o \in Outcomes : AuditRetry(o)
    \/ AuditOver

SpecAudit == Init /\ [][AuditNext /\ UNCHANGED <<lvars, xvars>>]_vars

(***************************************************************************)
(* RecordStatusMixin: soft and hard deletion, and the audit records         *)
(***************************************************************************)

\* The audit rows the tables may hold.
MaxAudit == 3

\* StatusType.get_possible_values(): active, inactive, deleted.
get_possible_values == {"a", "i", "d"}

ExInvalidStatus == <<"Exception", "set_model_status", "status", "parameter", "is", "invalid">>

\* The entity table of a kind with a status field, and the audit rows found.
StatusDbs ==
    {[i \in Ids |-> ("status" :> st[i]) @@ InitDb[i]] : st \in [Ids -> get_possible_values]}

StoredAudit(key, type) == [key |-> key, type |-> type, user |-> "alice"]

AuditTables == {<<>>, <<StoredAudit(Subject, "UPDATED")>>,
                <<StoredAudit(Subject, "UPDATED"), StoredAudit(Other, "ACCESS")>>,
                <<StoredAudit(Other, "UPDATED"), StoredAudit(Subject, "ACCESS")>>}

\* self.set_model_status(user, status) with status given as a value: the status
\* is saved and, for a known user, log_model_delete writes one audit row.
set_model_status(dbv, hist, id, user, status) ==
    IF status \in get_possible_values
    THEN [db |-> [dbv EXCEPT ![id].status = status],
          history |-> IF user # NoUser
                      THEN Append(hist, HistoryRow(log_model_change(
                               [id |-> id], user, {}, "DELETED", "DEL_QUEUE_REM")))
                      ELSE hist,
          raised |-> NoException]
    ELSE [db |-> dbv, history |-> hist, raised |-> ExInvalidStatus]

\* A delete_model that leaves an entity that is not active as it is.
delete_model_idempotent(dbv, hist, id, user, hard_delete, deactivate) ==
    IF hard_delete
    THEN [db |-> delete(dbv, id), history |-> hist, raised |-> NoException, done |-> TRUE]
    ELSE IF dbv[id].status # "a"
    THEN [db |-> dbv, history |-> hist, raised |-> NoException, done |-> TRUE]
    ELSE set_model_status(dbv, hist, id, user, IF deactivate THEN "i" ELSE "d")
            @@ [done |-> TRUE]

\* self.delete_model(user, hard_delete, deactivate) of an entity that has a
\* status field: the row is deleted, or its status is switched.
delete_model(dbv, hist, id, user, hard_delete, deactivate) ==
    IF hard_delete
    THEN [db |-> delete(dbv, id), history |-> hist, raised |-> NoException, done |-> TRUE]
    ELSE IF dbv[id].status # "a"
    THEN set_model_status(dbv, hist, id, user, "a") @@ [done |-> FALSE]
    ELSE set_model_status(dbv, hist, id, user, IF deactivate THEN "i" ELSE "d")
            @@ [done |-> TRUE]

\* cls.purge_deleted(): when the table has a row, every row with status 'd' is deleted.
purge_deleted(dbv) ==
    IF \E i \in Ids : dbv[i].exists
    THEN [i \in Ids |-> IF dbv[i].exists /\ dbv[i].status = "d"
                        THEN delete(dbv, i)[i] ELSE dbv[i]]
    ELSE dbv

\* self.clear_model_history(): the ChangeHistory and AccessHistory rows of the
\* entity's key are deleted.
clear_model_history(hist, id) == SelectSeq(hist, LAMBDA r : r.key # id)

StatusInit ==
    /\ RetryInit
    /\ db \in StatusDbs
    /\ inst = get(InitDb, Subject)
    /\ now = 0
    /\ history \in AuditTables
    /\ last = NoCall
    /\ LinksUnused
    /\ XrefsUnused

StatusApply(op, args, r) ==
    /\ db' = r.db
    /\ history' = r.history
    /\ last' = [op |-> op, args |-> args, pre |-> [db |-> db, history |-> history],
                raised |-> r.raised, ret |-> r.done]

\* The entity id is fetched and delete_model(user, hard_delete, deactivate) is called on it.
DeleteModelCall(id, user, hard_delete, deactivate) ==
    /\ last = NoCall
    /\ db[id].exists
    /\ user # NoUser => Len(history) < MaxAudit
    /\ StatusApply("delete_model", <<id, user, hard_delete, deactivate>>,
                   delete_model(db, history, id, user, hard_delete, deactivate))
    /\ UNCHANGED <<inst, now>>

\* cls.purge_deleted()
PurgeDeletedCall ==
    /\ last = NoCall
    /\ StatusApply("purge_deleted", <<>>,
                   [db |-> purge_deleted(db), history |-> history,
                    raised |-> NoException, done |-> None])
    /\ UNCHANGED <<inst, now>>

\* The entity id is fetched and clear_model_history() is called on it.
ClearModelHistoryCall(id) ==
    /\ last = NoCall
    /\ db[id].exists
    /\ StatusApply("clear_model_history", <<id>>,
                   [db |-> db, history |-> clear_model_history(history, id),
                    raised |-> NoException, done |-> None])
    /\ UNCHANGED <<inst, now>>

StatusReturn ==
    /\ last # NoCall
    /\ last' = NoCall
    /\ UNCHANGED <<db, inst, now, history>>

StatusNext ==
    \/ \E id \in Ids, user \in Users \cup {NoUser}, hard_delete \in BOOLEAN,
          deactivate \in BOOLEAN : DeleteModelCall(id, user, hard_delete, deactivate)
    \/ PurgeDeletedCall
    \/ \E id \in Ids : ClearModelHistoryCall(id)
    \/ StatusReturn

SpecStatus == StatusInit /\ [][StatusNext /\ UNCHANGED <<rvars, lvars, xvars>>]_vars

(***************************************************************************)
(* get_update_vals and clean_kwargs on proposed reference values           *)
(***************************************************************************)

\* The values a caller proposes for a field, as they arrive from JSON.
Proposed == {IntV(n) : n \in -2 .. 2} \cup {StrV("0"), StrV("-1"), StrV("NULL"), None}

\* str(v).strip()
Text(v) ==
    CASE v.k = "str" -> v.s
      [] v.k = "int" -> (CASE v.n = -2 -> "-2" [] v.n = -1 -> "-1" [] v.n = 0 -> "0"
                           [] v.n = 1 -> "1" [] OTHER -> "2")
      [] OTHER -> "None"

\* utils.check_valid(value): the upper-cased text is none of NONE, NULL, UNDEFINED.
check_valid(value) == Text(value) \notin {"NONE", "NULL", "UNDEFINED"}

\* utils.is_valid_dict(d_obj, key): the value is there, truthy and valid.
is_valid_dict(d_obj, key) ==
    LET val == IF key \in DOMAIN d_obj THEN d_obj[key] ELSE StrV("")
    IN  Bool(val) /\ check_valid(val)

\* str(v).replace('-', '').isdecimal() or ... .isnumeric()
IsDecimal(v) == Text(v) \in {"-2", "-1", "0", "1", "2"}

\* int(v)
ToInt(v) ==
    CASE Text(v) = "-2" -> -2 [] Text(v) = "-1" -> -1 [] Text(v) = "0" -> 0
      [] Text(v) = "1" -> 1 [] OTHER -> 2

\* self.get_update_vals(data, updates, source_key, id_exception_list=...)
get_update_vals(self, data, updates, source_key, id_exception_list) ==
    IF ~is_valid_dict(data, source_key) THEN updates
    ELSE LET new_val == data[source_key]
             destination_key == IF HasAttr(IdKey(source_key)) /\ IsDecimal(new_val)
                                THEN IdKey(source_key) ELSE source_key
         IN  IF Bool(new_val) /\ HasAttr(destination_key)
                /\ ~(GetAttr(self, destination_key) = new_val)
             THEN IF destination_key \notin id_exception_list
                     /\ EndsWithId(destination_key) /\ ToInt(new_val) < 1
                  THEN IF GetAttr(self, destination_key) # None
                       THEN (destination_key :> None) @@ updates
                       ELSE updates
                  ELSE (destination_key :> new_val) @@ updates
             ELSE updates

\* The instances and the earlier updates the calls start from.
RefInstances == {[get(InitDb, Subject) EXCEPT !.owner_id = o] : o \in {None, IntV(1), IntV(2)}}
EarlierUpdates == {EmptyDict, "name" :> StrV("b"), "owner_id" :> IntV(2)}
SourceKeys26 == {"owner", "owner_id", "name"}

RefInit ==
    /\ RetryInit
    /\ db = InitDb
    /\ inst \in RefInstances
    /\ now = 0
    /\ history = <<>>
    /\ last = NoCall
    /\ LinksUnused
    /\ XrefsUnused

\* inst.get_update_vals({source_key: v}, updates, source_key, id_exception_list)
GetUpdateValsCall(v, updates, source_key, id_exception_list) ==
    /\ last = NoCall
    /\ last' = [op |-> "get_update_vals", v |-> v, updates |-> updates,
                source_key |-> source_key, id_exception_list |-> id_exception_list,
                ret |-> get_update_vals(inst, source_key :> v, updates, source_key,
                                        id_exception_list)]
    /\ UNCHANGED <<db, inst, now, history>>

\* save_model's cleaning of its arguments: cls.clean_kwargs(user, kwargs={k: v})
CleanKwargsCall(k, v) ==
    /\ last = NoCall
    /\ last' = [op |-> "clean_kwargs", v |-> v, source_key |-> k,
                ret |-> clean_kwargs(NoUser, k :> v)]
    /\ UNCHANGED <<db, inst, now, history>>

RefReturn ==
    /\ last # NoCall
    /\ last' = NoCall
    /\ UNCHANGED <<db, inst, now, history>>

RefNext ==
    \/ \E v \in Proposed, updates \in EarlierUpdates, source_key \in SourceKeys26,
          id_exception_list \in {{}, {"owner_id"}} :
          GetUpdateValsCall(v, updates, source_key, id_exception_list)
    \/ \E k \in SourceKeys26, v \in Proposed \ {None} : CleanKwargsCall(k, v)
    \/ RefReturn

SpecRefs == RefInit /\ [][RefNext /\ UNCHANGED <<rvars, lvars, xvars>>]_vars

(***************************************************************************)
(* ConditionalMixin.build_filter                                           *)
(***************************************************************************)

\* The persisted conditions of one group: field path, operator (an empty
\* condition.value means equals), the json value with its type, three flags.
Group == 1
SortOrds == {1, 2, 3}
JsonValues == {[type |-> "str", value |-> StrV("a")], [type |-> "model", value |-> IntV(2)],
               [type |-> "enumtypemodel", value |-> StrV("e")]}
Conditions ==
    {c \in [group : {Group}, sort_ord : SortOrds, attr : {"name"}, condition : {"", "gt"},
            value : JsonValues, negate : BOOLEAN, logical_and : BOOLEAN,
            group_prev : BOOLEAN] :
        \/ c.value.type = "str"
        \/ c.value.type = "model" /\ c.condition = "gt"
        \/ c.value.type = "enumtypemodel" /\ c.condition = ""}

\* Q(**{final_attr: final_value}) and ~q; the key is its parts between "__".
Q(final_attr, final_value) == [key |-> final_attr, value |-> final_value, neg |-> FALSE]
Not(q) == [q EXCEPT !.neg = ~@]

\* QSFilter: the running expression; x_and / x_or combine a leaf with the whole
\* of it, grp_and / grp_or with its last formed group.
QSFilter(q) == [m |-> "leaf", q |-> q]
x_and(qs, q) == [m |-> "and", target |-> "whole", on |-> qs, q |-> q]
x_or(qs, q) == [m |-> "or", target |-> "whole", on |-> qs, q |-> q]
grp_and(qs, q) == [m |-> "and", target |-> "group", on |-> qs, q |-> q]
grp_or(qs, q) == [m |-> "or", target |-> "group", on |-> qs, q |-> q]

\* cls.get_models(group=model_instance).order_by('sort_ord')
RECURSIVE order_by(_)
order_by(rows) ==
    IF rows = {} THEN <<>>
    ELSE LET r == CHOOSE x \in rows : \A y \in rows : x.sort_ord <= y.sort_ord
         IN  <<r>> \o order_by(rows \ {r})
get_models(dbv, model_instance) ==
    order_by({dbv[i] : i \in {j \in DOMAIN dbv : dbv[j].group = model_instance}})

\* final_attr: for a value of type model the key attr__pk; else, when the
\* condition has an operator, the template "{0}__{1}" as it stands (nothing
\* formats it); else the field path.
final_attr(cnd) ==
    IF cnd.value.type = "model" THEN <<cnd.attr, "pk">>
    ELSE IF cnd.condition # "" THEN <<"{0}", "{1}">> ELSE <<cnd.attr>>

\* final_value: the json value for str, int, float, bool and model, None for
\* any other type that is not a date.
final_value(cnd) ==
    IF cnd.value.type \in {"str", "int", "float", "bool", "model"} THEN cnd.value.value
    ELSE None

\* One pass of the loop body over the condition cnd.
BuildStep(qs_filter, cnd, q) ==
    IF qs_filter = None THEN QSFilter(q)
    ELSE IF cnd.group_prev
         THEN IF cnd.logical_and
              THEN (IF cnd.negate THEN grp_and(qs_filter, Not(q)) ELSE grp_and(qs_filter, q))
              ELSE (IF cnd.negate THEN grp_or(qs_filter, Not(q)) ELSE grp_or(qs_filter, q))
         ELSE IF cnd.logical_and
              THEN (IF cnd.negate THEN x_and(qs_filter, Not(q)) ELSE x_and(qs_filter, q))
              ELSE (IF cnd.negate THEN x_or(qs_filter, Not(q)) ELSE x_or(qs_filter, q))

RECURSIVE BuildLoop(_, _, _)
BuildLoop(conditions, i, qs_filter) ==
    IF i > Len(conditions) THEN qs_filter
    ELSE BuildLoop(conditions, i + 1,
                   BuildStep(qs_filter, conditions[i],
                             Q(final_attr(conditions[i]), final_value(conditions[i]))))

\* cls.build_filter(model_instance): qs_filter.f, or None without conditions.
build_filter(dbv, model_instance) == BuildLoop(get_models(dbv, model_instance), 1, None)

FilterInit ==
    /\ RetryInit
    /\ db = EmptyDict
    /\ inst = None
    /\ now = 0
    /\ history = <<>>
    /\ last = NoCall
    /\ LinksUnused
    /\ XrefsUnused

\* A condition is persisted under the next id, at a sort index not yet taken.
CreateCondition(cnd) ==
    /\ last = NoCall
    /\ \A i \in DOMAIN db : db[i].sort_ord # cnd.sort_ord
    /\ db' = db @@ ((Len(db) + 1) :> cnd)
    /\ UNCHANGED <<inst, now, history, last>>

BuildFilterCall ==
    /\ last = NoCall
    /\ last' = [op |-> "build_filter", ret |-> build_filter(db, Group)]
    /\ UNCHANGED <<db, inst, now, history>>

FilterReturn ==
    /\ last # NoCall
    /\ last' = NoCall
    /\ UNCHANGED <<db, inst, now, history>>

FilterNext ==
    \/ \E cnd \in Conditions : CreateCondition(cnd)
    \/ BuildFilterCall
    \/ FilterReturn

SpecFilter == FilterInit /\ [][FilterNext /\ UNCHANGED <<rvars, lvars, xvars>>]_vars

(***************************************************************************)
(* MagicFlagMixin: the flags of one record and their cache on the instance *)
(***************************************************************************)

\* The flag names and values in use; the TaskFlag rows of the record are a
\* dictionary flag -> value, a flag object is a row as it was read or written.
Flags == {"f", "g"}
FlagValues == {"x", "y"}
FlagObj(flag, value) == [flag |-> flag, value |-> value]

\* self.__task_flags is assigned in load_task_flags only: before its first
\* call the instance has no such attribute.
NoAttribute == [k |-> "unset"]
FreshInstance == [id |-> Subject, task_flags |-> NoAttribute, task_flag_objs |-> NoAttribute]

ExNoTaskFlags == <<"AttributeError", "object", "has", "no", "attribute", "_MagicFlagMixin__task_flags">>

\* TaskFlag.filter(content_type_id=..., record_id=self.id)
TaskFlag_filter(dbv) == {FlagObj(f, dbv[f]) : f \in DOMAIN dbv}

\* TaskFlag.get(content_type_id=..., record_id=self.id, flag=flag)
TaskFlag_get(dbv, flag) == IF flag \in DOMAIN dbv THEN FlagObj(flag, dbv[flag]) ELSE None

\* TaskFlag.set(self, flag, value): None when the flag already has the value
\* ("Flag already set"), else the row created or changed.
TaskFlag_set(dbv, flag, value) ==
    IF flag \in DOMAIN dbv /\ dbv[flag] = value
    THEN [db |-> dbv, ret |-> None]
    ELSE [db |-> (flag :> value) @@ dbv, ret |-> FlagObj(flag, value)]

\* flag_obj.delete()
TaskFlag_delete(dbv, flag) == [f \in DOMAIN dbv \ {flag} |-> dbv[f]]

\* self.load_task_flags()
load_task_flags(self, dbv) ==
    [self EXCEPT !.task_flags = [f \in {o.flag : o \in TaskFlag_filter(dbv)} |-> dbv[f]],
                 !.task_flag_objs = [f \in {o.flag : o \in TaskFlag_filter(dbv)} |->
                                        FlagObj(f, dbv[f])]]

\* self.__change_cached_flag(flag, flag_obj); reading the attribute of an
\* instance that has none raises AttributeError.
change_cached_flag(self, flag, flag_obj) ==
    IF self.task_flags = NoAttribute THEN [inst |-> self, raised |-> ExNoTaskFlags]
    ELSE IF flag_obj # None
    THEN [inst |-> [self EXCEPT !.task_flags = (flag :> flag_obj.value) @@ @,
                                !.task_flag_objs = (flag :> flag_obj) @@ @],
          raised |-> None]
    ELSE IF flag \in DOMAIN self.task_flags
    THEN [inst |-> [self EXCEPT !.task_flags = [f \in DOMAIN @ \ {flag} |-> @[f]],
                                !.task_flag_objs = [f \in DOMAIN @ \ {flag} |-> @[f]]],
          raised |-> None]
    ELSE [inst |-> self, raised |-> None]

\* self.get_flag(flag, force_query)
get_flag(self, dbv, flag, force_query) ==
    IF self.task_flags = NoAttribute THEN [inst |-> self, ret |-> None, raised |-> ExNoTaskFlags]
    ELSE IF force_query
    THEN [inst |-> change_cached_flag(self, flag, TaskFlag_get(dbv, flag)).inst,
          ret |-> TaskFlag_get(dbv, flag), raised |-> None]
    ELSE [inst |-> self,
          ret |-> IF flag \in DOMAIN self.task_flag_objs THEN self.task_flag_objs[flag] ELSE None,
          raised |-> None]

\* self.get_flag_value(flag, force_query), with default=None
FlagValue(r) == [r EXCEPT !.ret = IF @ = None THEN None ELSE StrV(@.value)]
get_flag_value(self, dbv, flag, force_query) == FlagValue(get_flag(self, dbv, flag, force_query))

\* self.set_flag(flag, value)
SetFlagCached(s, c) == [db |-> s.db, inst |-> c.inst, raised |-> c.raised]
set_flag(self, dbv, flag, value) ==
    SetFlagCached(TaskFlag_set(dbv, flag, value),
                  change_cached_flag(self, flag, TaskFlag_set(dbv, flag, value).ret))

\* self.unset_flag(flag)
UnsetFlagFound(g, dbv, flag) ==
    IF g.raised # None THEN [db |-> dbv, inst |-> g.inst, raised |-> g.raised]
    ELSE [db |-> IF g.ret # None THEN TaskFlag_delete(dbv, flag) ELSE dbv,
          inst |-> change_cached_flag(g.inst, flag, None).inst, raised |-> None]
unset_flag(self, dbv, flag) == UnsetFlagFound(get_flag(self, dbv, flag, FALSE), dbv, flag)

\* The flags the record has when the instance is constructed.
FlagStores == {EmptyDict, "f" :> "x"}

FlagInit ==
    /\ RetryInit
    /\ db \in FlagStores
    /\ inst = FreshInstance
    /\ now = 0
    /\ history = <<>>
    /\ last = NoCall
    /\ LinksUnused
    /\ XrefsUnused

LoadTaskFlagsCall ==
    /\ last = NoCall
    /\ inst' = load_task_flags(inst, db)
    /\ last' = [op |-> "load_task_flags", raised |-> None]
    /\ UNCHANGED <<db, now, history>>

FlagApply(op, flag, r) ==
    /\ last = NoCall
    /\ db' = r.db
    /\ inst' = r.inst
    /\ last' = [op |-> op, flag |-> flag, raised |-> r.raised]
    /\ UNCHANGED <<now, history>>

SetFlagCall(flag, value) == FlagApply("set_flag", flag, set_flag(inst, db, flag, value))

UnsetFlagCall(flag) == FlagApply("unset_flag", flag, unset_flag(inst, db, flag))

GetFlagValueCall(flag, force_query) ==
    /\ last = NoCall
    /\ inst' = get_flag_value(inst, db, flag, force_query).inst
    /\ last' = [op |-> "get_flag_value", flag |-> flag, force_query |-> force_query,
                ret |-> get_flag_value(inst, db, flag, force_query).ret,
                raised |-> get_flag_value(inst, db, flag, force_query).raised]
    /\ UNCHANGED <<db, now, history>>

FlagReturn ==
    /\ last # NoCall
    /\ last' = NoCall
    /\ UNCHANGED <<db, inst, now, history>>

FlagNext ==
    \/ LoadTaskFlagsCall
    \/ \E flag \in Flags, value \in FlagValues : SetFlagCall(flag, value)
    \/ \E flag \in Flags : UnsetFlagCall(flag)
    \/ \E flag \in Flags, force_query \in BOOLEAN : GetFlagValueCall(flag, force_query)
    \/ FlagReturn

SpecFlags == FlagInit /\ [][FlagNext /\ UNCHANGED <<rvars, lvars, xvars>>]_vars

(***************************************************************************)
(* GenericRelationshipMixin.clear_generic_relations                        *)
(***************************************************************************)

ExTypeError == <<"TypeError", "cannot", "unpack", "non-iterable", "int", "object">>

\* cls.by_id(id): cls.get(id) passes the id on to cls.filter and that to
\* objects.filter as a positional argument; a queryset takes Q objects and
\* (name, value) pairs there and raises TypeError on an integer.
by_id(cls, id) == [raised |-> ExTypeError, ret |-> None]

\* rel.child(): self.child_relation.model_class().by_id(self.child_model_id)
child(rel) == by_id(rel.child_relation_id, rel.child_model_id)

\* The loop of clear_generic_relations over the links found, from the i-th on;
\* model_obj is what rel.child() gave for the i-th.
RECURSIVE ClearLoop(_, _, _, _)
ClearOne(table, obj_relations, i, self, model_obj) ==
    IF model_obj.raised # NoException THEN [table |-> table, raised |-> model_obj.raised]
    ELSE IF Truthy(model_obj.ret)
    THEN ClearLoop(remove_relation(table, self, model_obj.ret, TRUE).table, obj_relations,
                   i + 1, self)
    ELSE ClearLoop(table, obj_relations, i + 1, self)
ClearLoop(table, obj_relations, i, self) ==
    IF i > Len(obj_relations) THEN [table |-> table, raised |-> NoException]
    ELSE ClearOne(table, obj_relations, i, self, child(obj_relations[i]))

\* self.clear_generic_relations(model)
clear_generic_relations(table, self, model) ==
    ClearLoop(table, get_relations(table, self, model), 1, self)

ClearLinksInit ==
    /\ RetryInit
    /\ db = InitDb
    /\ inst = get(InitDb, Subject)
    /\ now = 0
    /\ history = <<>>
    /\ last = NoCall
    /\ links \in LinkStores
    /\ live \in LiveSets
    /\ call = [c \in Callers |-> IdleCall]
    /\ XrefsUnused

ClearLinksApply(self, model, r) ==
    /\ last = NoCall
    /\ links' = r.table
    /\ last' = LinkRecord("clear_generic_relations", <<self, model>>, links,
                          [raised |-> r.raised, ret |-> None])
    /\ UNCHANGED <<live, call>>

ClearGenericRelationsCall(self, model) ==
    ClearLinksApply(self, model, clear_generic_relations(links, self, model))

ClearLinksNext ==
    \/ \E self \in Ents, model \in Kinds : self \in live /\ ClearGenericRelationsCall(self, model)
    \/ LinkReturn

SpecClearLinks == ClearLinksInit /\ [][ClearLinksNext /\ UNCHANGED <<rvars, db, inst, now, history, xvars>>]_vars

(***************************************************************************)
(* Claims about wsrep_retry                                                *)
(***************************************************************************)

Failed(o) == ~o.ok

\* The failures that are transient conflicts of the cluster.
TransientConflict(ex) == ex \in {ExWsrepUpper, ExWsrepLower}

TransientFailure(o) == Failed(o) /\ TransientConflict(o.ex)

AllTransient(seq) == \A i \in DOMAIN seq : TransientFailure(seq[i])

\* C1: an operation that fails transiently on every attempt is attempted at most
\* 10 times in total, the original attempt included, and after 11 transient
\* failures in a row the wrapper has raised with exactly one critical log entry
\* and makes no 12th attempt.
C1_AtMostTenAttempts ==
    /\ attempts <= 10
    /\ (AllTransient(outcomes) /\ Len(outcomes) >= 11)
          => (rpc = "raised" /\ crit = 1 /\ attempts = 11)

\* C2: an operation whose first 9 attempts fail transiently is attempted a 10th
\* time (the wrapper does not give up before), and when the 10th attempt succeeds
\* its result is returned, nothing is raised, no critical entry is logged and
\* every retry was preceded by one fixed sleep.
C2_TenthAttemptReturns ==
    /\ (rpc = "raised" /\ AllTransient(outcomes)) => Len(outcomes) >= 10
    /\ (rpc = "returned" /\ Len(outcomes) = 10)
          => /\ ret = outcomes[10].val
             /\ raised = NoException
             /\ crit = 0
             /\ slept = 9 * SleepSeconds

C2_Witness ==
    /\ rpc = "returned"
    /\ Len(outcomes) = 10
    /\ AllTransient(SubSeq(outcomes, 1, 9))
    /\ ret = "row2"

\* C3: a non-transient failure is never retried: no attempt follows it, no sleep
\* follows it, and it is the failure raised to the caller, also when it occurs
\* on a retry after earlier transient failures.
C3_NonTransientNotRetried ==
    /\ \A i \in DOMAIN outcomes : i < Len(outcomes) => TransientFailure(outcomes[i])
    /\ (rpc = "pending" /\ ~TransientConflict(rex)) => outcomes[Len(outcomes)].ex = rex
    /\ (rpc = "raised" /\ ~TransientFailure(outcomes[Len(outcomes)]))
          => /\ raised = outcomes[Len(outcomes)].ex
             /\ slept = (Len(outcomes) - 1) * SleepSeconds
             /\ ret = NoValue

C3_Witness ==
    /\ rpc = "raised"
    /\ Len(outcomes) = 3
    /\ raised = ExDuplicate
    /\ slept = 2 * SleepSeconds

(***************************************************************************)
(* Claims about model_differences and save_model                           *)
(***************************************************************************)

\* The identity a proposed reference stands for: a handle's id, a raw id, None.
RefIdentity(v) == IF v = None THEN None ELSE IF v.k = "Owner" THEN IntV(v.id) ELSE v

\* The value a proposal asks for, -1 on a reference column meaning "clear".
Resolved(k, v) ==
    IF k \in {"owner", "owner_id"}
    THEN (IF v = IntV(-1) /\ k = "owner_id" THEN None ELSE RefIdentity(v))
    ELSE v

\* The instance's current value of the column behind field k.
Current(self, k) == self[Column(k)]

ScalarKeys(kw) == DOMAIN kw \cap {"name", "owner", "owner_id"}

\* The proposed scalar and reference fields whose value differs from the instance's.
DifferingFields(self, kw) == {k \in ScalarKeys(kw) : Resolved(k, kw[k]) # Current(self, k)}

\* The member set proposed for a collection field.
ProposedMembers(v) == IF v.ids = <<-1>> THEN {} ELSE Range(v.ids)

\* The proposed collection fields whose member set differs from the stored one.
DifferingCollections(dbv, id, kw) ==
    {f \in DOMAIN kw \cap ManyToMany : ProposedMembers(kw[f]) # dbv[id][f]}

SaveCalled == last.op = "save_model"
SaveReturned == SaveCalled /\ last.raised = NoException

\* C4: the delta of model_differences(E, F) holds exactly the keys of F whose
\* value differs from E's current value, references (given as a raw identity or
\* as a handle) being compared by the identity they refer to.
C4_DeltaHoldsExactlyDifferingKeys ==
    last.op = "model_differences" =>
        \A k \in ScalarKeys(last.kwargs) :
            (k \in DOMAIN last.delta) <=> (RefIdentity(last.kwargs[k]) # Current(inst, k))

\* C5: after save_model(F) returns, the delta of the updated entity against the
\* same F is empty, and a second save_model with the same F writes nothing to
\* the store.
C5_SaveThenDeltaIsEmpty ==
    (SaveReturned /\ ~last.fresh) =>
        /\ model_differences(inst, last.kwargs) = EmptyDict
        /\ LET again == save_model(db, history, inst, now, last.user, last.dup_clear,
                                   last.kwargs)
           IN  /\ again.writes = <<>>
               /\ again.db = db
               /\ again.history = history

C7_OneAuditRecordNamingChangedFields ==
    LET changedFields == DifferingFields(last.pre.inst, last.kwargs)
                            \cup DifferingCollections(last.pre.db, Subject, last.kwargs)
    IN  (SaveReturned /\ changedFields # {}) =>
            /\ Len(last.logged) = 1
            /\ last.logged[1].fields = changedFields

\* C8: for a collection field in the proposal, the stored membership after the
\* call is exactly the proposed member set, and the field is reported as changed
\* in the returned data if and only if the proposed set differs from the
\* membership before the call.
C8_CollectionFullReplace ==
    (SaveReturned /\ "tags" \in DOMAIN last.kwargs) =>
        /\ db[Subject].tags = ProposedMembers(last.kwargs["tags"])
        /\ ("tags" \in DOMAIN last.data)
              <=> (ProposedMembers(last.kwargs["tags"]) # last.pre.db[Subject].tags)

\* C9: a proposal of only a collection field whose member set equals the stored
\* membership reports no change: changed is false, the field is not reported,
\* no audit record is appended.
C9_EqualMembershipReportsNoChange ==
    (/\ SaveCalled
     /\ DOMAIN last.kwargs = {"tags"}
     /\ ProposedMembers(last.kwargs["tags"]) = last.pre.db[Subject].tags)
        => /\ last.changed = FALSE
           /\ "tags" \notin DOMAIN last.data
           /\ last.logged = <<>>

\* C10: when the save hits a uniqueness violation with duplicate resolution on
\* and the conflicting record is found, that record is deleted and, when the
\* call returns, the store holds the proposed value of every field that
\* differed; with resolution off the violation is raised and the store is
\* unchanged.
C10_DuplicateClearedThenSaved ==
    SaveCalled =>
        /\ (last.raised = NoException /\ last.deleted # {}) =>
              /\ \A j \in last.deleted : ~db[j].exists
              /\ \A k \in DifferingFields(last.pre.inst, last.kwargs) :
                    db[Subject][Column(k)] = Resolved(k, last.kwargs[k])
        /\ (~last.dup_clear /\ last.raised # NoException) =>
              (last.raised = ExUniqueViolation /\ db = last.pre.db)

(***************************************************************************)
(* Claims about set_bulk and set_bulk_targeted                             *)
(***************************************************************************)

BulkCalled == last.op \in {"set_bulk", "set_bulk_targeted"}

\* The entities of the batch: the stored rows whose id the call names.
BatchOf(c) == {i \in Ids : i \in c.ids /\ c.pre[i].exists}

\* Saving the batch one entity after the other meets a failure.
SomeSaveFails(c) ==
    SaveEach(c.pre, c.pre, <<>>, SortedIds(BatchOf(c)),
             [i \in Ids |-> IF i \in c.ids THEN c.values[i] ELSE EmptyDict],
             c.user, now).raised # NoException

\* C11: when the save of some entity of the batch fails, no entity is modified
\* in the store after the call, and the failure is logged once, with the id
\* list and the attempted values.
C11_BulkAllOrNothingAndLogged ==
    (BulkCalled /\ SomeSaveFails(last)) =>
        /\ db = last.pre
        /\ Len(last.errors) = 1
        /\ last.errors[1].ids = last.ids

\* C12: when no save of the batch fails, every stored entity the call names
\* holds its proposed values after the call, and no error is logged.
C12_BulkAppliesToEveryEntity ==
    (BulkCalled /\ ~SomeSaveFails(last)) =>
        /\ \A i \in BatchOf(last) : \A k \in ScalarKeys(last.values[i]) :
              db[i][Column(k)] = Resolved(k, last.values[i][k])
        /\ last.errors = <<>>

(***************************************************************************)
(* Claims about the relationship store                                     *)
(***************************************************************************)

\* The stored links of a (parent, child) pair.
LinksOfPair(table, parent_obj, child_obj) ==
    {l \in table : /\ l.parent_relation_id = parent_obj.kind
                   /\ l.parent_model_id = parent_obj.id
                   /\ l.child_relation_id = child_obj.kind
                   /\ l.child_model_id = child_obj.id}

ParentOf(l) == Entity(l.parent_relation_id, l.parent_model_id)
ChildOf(l) == Entity(l.child_relation_id, l.child_model_id)

\* C13: set_generic_relation never fails to link; when it is over the pair has
\* exactly one stored link, which is the one returned, the same holds for the
\* reverse pair with both, and a second call in sequence finds and returns the
\* same link again.
C13_LinkingIsIdempotent ==
    \A c \in Callers :
        call[c].pc \in {"done", "raised"} =>
            /\ call[c].raised = NoException
            /\ LinksOfPair(links, call[c].model_obj, call[c].self) = {call[c].rel1}
            /\ get_relation(links, call[c].model_obj, call[c].self) = call[c].rel1
            /\ call[c].both =>
                  /\ LinksOfPair(links, call[c].self, call[c].model_obj) = {call[c].rel2}
                  /\ get_relation(links, call[c].self, call[c].model_obj) = call[c].rel2

C16_ReverseLookupReturnsParents ==
    last.op = "get_reverse_relation_list" =>
        LET child_obj == last.args[1]
            parents == {e \in live : /\ e.kind = last.args[2]
                                     /\ LinksOfPair(last.pre, e, child_obj) # {}}
        IN  /\ last.raised = NoException
            /\ Range(last.ret) = parents
            /\ Len(last.ret) = Cardinality(parents)

\* The links a lookup reads that point to a deleted entity.
Dangling(c) ==
    CASE c.op = "get_relation_list" ->
            {l \in c.pre : /\ ParentOf(l) = c.args[1] /\ l.child_relation_id = c.args[2]
                           /\ ChildOf(l) \notin live}
      [] c.op = "get_reverse_relation_list" ->
            {l \in c.pre : /\ ChildOf(l) = c.args[1] /\ l.parent_relation_id = c.args[2]
                           /\ ParentOf(l) \notin live}
      [] c.op = "get_sorted_relations" ->
            {l \in c.pre : ParentOf(l) = c.args[1] /\ ChildOf(l) \notin live}
      [] OTHER -> {}

\* C17: a lookup that meets a link to a deleted entity does not fail and holds
\* no entry for that link: every entry of the result is an existing entity.
C17_DanglingLinksAreOmitted ==
    Dangling(last) # {} =>
        /\ last.raised = NoException
        /\ last.op \in {"get_relation_list", "get_reverse_relation_list"} =>
              \A i \in DOMAIN last.ret : last.ret[i] \in live
        /\ last.op = "get_sorted_relations" =>
              \A key \in DOMAIN last.ret :
                  /\ last.ret[key] # <<>>
                  /\ \A i \in DOMAIN last.ret[key] : last.ret[key][i] \in live

(***************************************************************************)
(* Claims about cross-reference reconciliation                             *)
(***************************************************************************)

\* The cross-references of one (entity kind, source scope, external key).
XrefsOfKey(table, source_key) ==
    {x \in table : /\ x.content_type = ContentType
                   /\ x.record_source_id = Crm.id
                   /\ x.source_id = Str(source_key)}

LiveIds(dbv) == {i \in Ids : dbv[i].exists}
Resolves(dbv, xr) == xr.key \in LiveIds(dbv)
Reconciled == last.op = "external_model_create_or_diff"

\* C18: a call for a key that has no cross-reference creates exactly one entity
\* and exactly one cross-reference pointing to it and reports created = true;
\* a call for a key whose cross-reference resolves creates neither.
C18_FirstCallCreatesEntityAndXref ==
    Reconciled =>
        /\ (last.xr = None /\ XrefsOfKey(last.pre.xrefs, last.source_id) = {}) =>
              /\ last.raised = NoException
              /\ last.obj_data # None
              /\ last.obj_data.created
              /\ Cardinality(LiveIds(db) \ LiveIds(last.pre.db)) = 1
              /\ \E x \in xrefs :
                    /\ XrefsOfKey(xrefs, last.source_id) = {x}
                    /\ x.key = last.obj_data.obj.id
                    /\ x.key \in LiveIds(db) \ LiveIds(last.pre.db)
        /\ (last.xr # None /\ Resolves(last.pre.db, last.xr)) =>
              /\ LiveIds(db) = LiveIds(last.pre.db)
              /\ xrefs = last.pre.xrefs

\* C19: when the cross-reference resolves to a stored entity the call returns
\* created = false, the delta exactly when a proposed value differs from the
\* entity's, the entity as stored, and changes neither the entity table, nor
\* the cross-references, nor the audit trail.
C19_DryRunReturnsDeltaAndChangesNothing ==
    (Reconciled /\ last.xr # None /\ Resolves(last.pre.db, last.xr)) =>
        LET stored == last.pre.db[last.xr.key]
            differing == DifferingFields(stored, last.obj_dict)
        IN  /\ last.raised = NoException
            /\ last.obj_data # None
            /\ ~last.obj_data.created
            /\ ("data" \in DOMAIN last.obj_data) <=> (differing # {})
            /\ "data" \in DOMAIN last.obj_data => last.obj_data.data # EmptyDict
            /\ last.obj_data.obj.name = stored.name
            /\ last.obj_data.obj.owner_id = stored.owner_id
            /\ db = last.pre.db
            /\ xrefs = last.pre.xrefs
            /\ history = last.pre.history

C21_OrphanedXrefIsFlaggedForRepair ==
    (Reconciled /\ last.xr # None /\ ~Resolves(last.pre.db, last.xr)) =>
        /\ last.raised = NoException
        /\ last.xr_update # None
        /\ last.xr_update.xr = last.xr
        /\ last.xr_update.obj_id \in LiveIds(db)
        /\ xrefs = last.pre.xrefs

\* The cross-references clear_xref is to delete: those of the entity, in the
\* given source scope when one is given; none for an entity without identity.
ToClear(table, self_id, r_source_obj) ==
    {x \in table :
        /\ x.content_type = ContentType
        /\ self_id # None
        /\ x.key = self_id.n
        /\ r_source_obj.k = "RecordSource" => x.record_source_id = r_source_obj.id
        /\ r_source_obj.k = "str" => SourceValue(x.record_source_id) = r_source_obj.s}

\* C22: clear_xref deletes exactly the cross-references of the entity, of the
\* given source scope when one is given, and leaves every other one unchanged.
C22_ClearXrefDeletesExactlyTheEntitysXrefs ==
    last.op = "clear_xref" =>
        xrefs = last.pre.xrefs \ ToClear(last.pre.xrefs, last.self_id, last.r_source_obj)

(***************************************************************************)
(* Claims about the audit trail                                            *)
(***************************************************************************)

AuditCalled == last # NoCall /\ "pc" \in DOMAIN last

\* C23: one log_model_change or log_model_access call makes no more write
\* attempts than the retry policy allows an entity write (the call itself and
\* the retries counted up to the retry limit), and a call that gave up raised.
C23_AuditWriteAttemptsAreCapped ==
    AuditCalled =>
        /\ attempts <= RetryLimit + 2
        /\ (last.pc = "over" /\ rpc = "raised") => attempts >= 1

\* C24: when the entity write of save_model succeeded, save_model returns
\* (changed = true, revert data) whatever becomes of the audit write, and the
\* entity change stays in the store.
C24_AuditFailureDoesNotFailTheSave ==
    (AuditCalled /\ last.op = "save_model" /\ last.pc = "over") =>
        /\ last.raised = NoException
        /\ last.returned = [changed |-> TRUE, data |-> last.data]
        /\ db = last.written

\* The stored entities and the audit rows of an entity.
Stored(dbv) == {i \in Ids : dbv[i].exists}
AuditOf(hist, id) == SelectSeq(hist, LAMBDA r : r.key = id)
HardDeleted == Stored(last.pre.db) \ Stored(db)

\* C25: an audit record is removed only together with the hard deletion of its
\* entity, and after a hard deletion (delete_model with hard_delete, or
\* purge_deleted) no audit record of a deleted entity remains; the audit
\* records of every other entity are unchanged.
C25_AuditRecordsGoWithTheirEntity ==
    (last # NoCall /\ last.op \in {"delete_model", "purge_deleted", "clear_model_history"}) =>
        \A id \in Ids :
            IF id \in HardDeleted
            THEN AuditOf(history, id) = <<>>
            ELSE \A n \in 1 .. Len(AuditOf(last.pre.history, id)) :
                    /\ n <= Len(AuditOf(history, id))
                    /\ AuditOf(history, id)[n] = AuditOf(last.pre.history, id)[n]

ClearsReference(c) ==
    /\ c.source_key \in {"owner", "owner_id"}
    /\ c.v.k = "int"
    /\ c.v.n <= 0

\* C26: a zero or negative value proposed for a reference field is recorded by
\* get_update_vals as "set to empty" when the reference is not empty and not
\* at all when it is, is kept as given for a field on the exemption list, and
\* is turned into empty by clean_kwargs.
C26_NonPositiveReferenceClears ==
    /\ (last.op = "get_update_vals" /\ ClearsReference(last)) =>
          IF "owner_id" \in last.id_exception_list
          THEN last.ret = ("owner_id" :> last.v) @@ last.updates
          ELSE IF inst.owner_id # None
               THEN last.ret = ("owner_id" :> None) @@ last.updates
               ELSE last.ret = last.updates
    /\ (last.op = "clean_kwargs" /\ last.source_key = "owner_id"
           /\ last.v.k = "int" /\ last.v.n <= 0) =>
          last.ret = ("owner_id" :> None)

(***************************************************************************)
(* Claims about build_filter                                               *)
(***************************************************************************)

\* The leaf of a condition as field path, operator and value.
LeafOf(c) ==
    [key |-> IF c.condition = "" THEN <<c.attr>> ELSE <<c.attr, c.condition>>,
     value |-> c.value.value, neg |-> FALSE]

\* The running expression after the first i conditions in ascending sort index.
RECURSIVE Running(_, _)
Running(cs, i) ==
    IF i = 0 THEN None
    ELSE IF i = 1 THEN [m |-> "leaf", q |-> LeafOf(cs[1])]
    ELSE [m |-> IF cs[i].logical_and THEN "and" ELSE "or",
          target |-> IF cs[i].group_prev THEN "group" ELSE "whole",
          on |-> Running(cs, i - 1),
          q |-> [LeafOf(cs[i]) EXCEPT !.neg = cs[i].negate]]

\* The conditions of the store in ascending sort index.
Ascending == [i \in 1 .. Len(db) |-> db[CHOOSE j \in DOMAIN db : Cardinality({k \in DOMAIN db : db[k].sort_ord < db[j].sort_ord}) = i - 1]]

\* C27: build_filter takes the conditions in ascending sort index, starts with
\* the first leaf, and combines every later leaf (field path, operator and
\* value, negated exactly when negate is set) by AND exactly when logical_and
\* is set, with the last formed group exactly when group_prev is set.
C27_FilterFollowsTheConditions ==
    last.op = "build_filter" => last.ret = Running(Ascending, Len(db))

(***************************************************************************)
(* Claims about the flag cache                                             *)
(***************************************************************************)

\* A cached lookup of the flag answers what a forced store query answers.
Coherent(flag) ==
    /\ get_flag_value(inst, db, flag, FALSE).raised = None
    /\ get_flag_value(inst, db, flag, TRUE).raised = None
    /\ get_flag_value(inst, db, flag, FALSE).ret = get_flag_value(inst, db, flag, TRUE).ret

\* C28: after a set_flag or unset_flag call through the instance, for every
\* flag name the cached get_flag_value returns the value the forced store
\* query returns.
C28_CachedFlagsMatchTheStore ==
    last.op \in {"set_flag", "unset_flag"} => \A flag \in Flags : Coherent(flag)

(***************************************************************************)
(* Claims about clear_generic_relations                                    *)
(***************************************************************************)

\* The links of the entity to children of the kind, and the links back to it
\* from the children these lead to.
ForwardLinks(table, self, kind) ==
    {l \in table : ParentOf(l) = self /\ l.child_relation_id = kind}
ReverseLinks(table, self, children) ==
    {l \in table : ChildOf(l) = self /\ ParentOf(l) \in children}

\* C30: when clear_generic_relations(kind) of an entity is over, the store
\* holds no link from the entity to a child of the kind, dead or alive, and no
\* link back from such a child; the entity's links to children of other kinds
\* are as before.
C30_ClearLeavesNoLinkOfTheKind ==
    last.op = "clear_generic_relations" =>
        /\ ForwardLinks(links, last.args[1], last.args[2]) = {}
        /\ ReverseLinks(links, last.args[1],
                        {ChildOf(l) : l \in ForwardLinks(last.pre, last.args[1], last.args[2])}) = {}
        /\ \A l \in last.pre :
              (ParentOf(l) = last.args[1] /\ l.child_relation_id # last.args[2]) => l \in links

====
